---- MODULE Spec2Model ----
(***************************************************************************)
(* Reconciliation and mutation engine of the pre-order upload scripts.     *)
(*                                                                         *)
(* Spec (Step12): main() of JW_Step12_AddVariantsToExistingOffers.py and   *)
(* the add engine it drives: call_stoq_add_variants,                       *)
(* _try_add_chunk_with_lock_wait, _try_add_chunk, _post_with_retries and   *)
(* _divide_and_conquer_on_422.  The recursion of the bisection is an       *)
(* explicit stack of frames; the remote service answers every call         *)
(* nondeterministically.                                                   *)
(*                                                                         *)
(* Spec09: stoq_add_variants of JW_Step09_AddVariantsToNewSellingPlan.py  *)
(* with _add_chunk_or_bisect and its _post_with_retries.  SpecAdd: either  *)
(* of the two add engines runs.  SpecDiff: the comparison of the DB rows   *)
(* with the remote membership in main() of Step11 and Step12, and the      *)
(* remove and the add that follow it, twice in succession.                 *)
(*                                                                         *)
(* Spec13: main() of JW_Step13_BulkUpdateDeliveryProfileId.py: the         *)
(* paginated read of the delivery profile, the comparison with the DB rows *)
(* and the remove and add batches.  Spec11: remove_variants_chunked of     *)
(* JW_Step11_RemoveVariantsFromExistingOffers.py with its whole-batch      *)
(* retries and its per-item fallback, one action per requests.delete.      *)
(* SpecCost: the payloads the two add engines send for one chunk that      *)
(* holds one member the remote always rejects.  SpecApply: the remove      *)
(* engine of Step11 or the add engine of Step12 runs.  SpecLive: the add  *)
(* engine of Step12 on the last offer with a list of at most one chunk,    *)
(* under weak fairness of the next step.                                   *)
(*                                                                         *)
(* Spec09 also holds what main() of Step09 does with the offer once        *)
(* stoq_add_variants has returned.  Spec08: main() of                      *)
(* JW_Step08_DeleteSellingPlans.py.  SpecRun: the non-interactive batch    *)
(* mode of run_all.py.                                                     *)
(*                                                                         *)
(* Times are integers in units of 0.0001 s, so that the lock backoff       *)
(* schedule 1.0, 1.8, 3.24, 5.832, 10.4976, 12.0 s is exact.               *)
(***************************************************************************)
EXTENDS Integers, Sequences, FiniteSets, TLC

(***************************************************************************)
(* Bounds of the model.                                                    *)
(***************************************************************************)
\* offers returned by get_stoq_offer_ids_from_db
MaxOffers == 2
\* members in one offer's to_add list
MaxMembers == 4
\* chunk_size of call_stoq_add_variants (75 in the source), scaled down so
\* that a run has a full chunk that bisects twice and a following chunk
ChunkSize == 3
\* calls of one add run that the remote disturbs: a lock wait it answers
\* "job in progress", or a _post_with_retries it answers 429/5xx or fails
\* at the network level (as often as the code retries)
MaxDisturbed == 1
\* "job in progress" answers within one lock wait: enough for sleep_s to
\* grow from lock_backoff_start to lock_backoff_cap and be slept
MaxLockProbes == 6
\* variant ids 1..MaxId exist
MaxId == 2
\* Step11 remove: variant ids FirstVid..FirstVid + MaxVids11 - 1 exist; the
\* strings of the first and of the later ones differ in length
FirstVid == 9
MaxVids11 == 3
\* Step11 remove: REMOVE_BATCH_SIZE (10 in the source), scaled down
RemoveBatchSize == 2
\* the largest chunk whose calls are counted
MaxChunk == 9
\* Step08: rows the offers table holds, and the stoq_offer_id values
\* 1..MaxOid8 they carry
MaxRows8 == 2
MaxOid8 == 2
\* run_all: the steps of STEP_FILES (13 in the source), scaled down, and the
\* comma-separated chunks of one --select value
NSteps == 3
MaxChunks == 2
\* Step13: variants 1..MaxGid exist
MaxGid == 3
\* Step13: rows the DB table holds
MaxRows13 == 3
\* Step13: BATCH_SIZE (50 in the source), scaled down
BatchSize13 == 2
\* Step13: profileItems(first: 100), scaled down
PageSize13 == 2

(***************************************************************************)
(* Program constants.                                                      *)
(***************************************************************************)
max_retries == 3
lock_wait_seconds == 1800000
lock_backoff_start == 10000
lock_backoff_factor_x10 == 18
lock_backoff_cap == 120000
\* Step11: attempts of with_retries, retries of _retry_remove_batch
RETRY_TIMES == 3
REMOVE_MAX_RETRIES == 2
\* timeout=90 passed by main: the longest one requests.post can take
timeout == 900000
\* base_backoff=1.0 passed by main
base_backoff == 10000
\* Step09: INITIAL_BACKOFF = 1.0
INITIAL_BACKOFF == 10000
\* Step08: attempts of one delete_stoq_offer, and its first backoff (1.0 s)
MAX_RETRIES_8 == 3
INITIAL_BACKOFF_SEC == 10000

(***************************************************************************)
(* Remote responses.  A response is its HTTP status and what its body text *)
(* contains: lock = the text contains "job is in progress", words = the    *)
(* text contains "422", "already" or "unprocessable" (any letter case for  *)
(* the last two).                                                          *)
(***************************************************************************)
Resp(s, l, w) == [status |-> s, lock |-> l, words |-> w]

R200 == Resp(200, FALSE, FALSE)
R422words == Resp(422, FALSE, TRUE)
R422plain == Resp(422, FALSE, FALSE)
R409plain == Resp(409, FALSE, FALSE)
R409lock == Resp(409, TRUE, FALSE)
R400 == Resp(400, FALSE, FALSE)
R500 == Resp(500, FALSE, FALSE)
R429 == Resp(429, FALSE, FALSE)

\* the answers that end _post_with_retries at once
FinalResponses == {R200, R422words, R422plain, R409plain, R409lock, R400}
\* the answers _post_with_retries retries
TransientResponses == {R500, R429}

NoErr == [none |-> TRUE]

IsTransientStatus(s) == s = 429 \/ (500 <= s /\ s < 600)

\* _try_add_chunk: (ok, err) for the response _post_with_retries returned.
\* For 409/422 err is the body text alone (status 0 here: the text does not
\* name it); otherwise err is "HTTP <status>: <text>".
TryAddChunkResult(resp) ==
    IF 200 <= resp.status /\ resp.status < 300
    THEN [ok |-> TRUE, err |-> NoErr]
    ELSE IF resp.status \in {409, 422}
    THEN [ok |-> FALSE,
          err |-> [status |-> 0, prefixed |-> FALSE,
                   lock |-> resp.lock, words |-> resp.words]]
    ELSE [ok |-> FALSE,
          err |-> [status |-> resp.status, prefixed |-> TRUE,
                   lock |-> resp.lock, words |-> resp.words]]

\* _is_job_in_progress(err)
IsJobInProgress(err) == err # NoErr /\ err.lock

\* the test of call_stoq_add_variants that sends a failed chunk to bisection:
\* err and ("422" in err or "already" in err.lower() or "unprocessable" in ...)
\* The "HTTP <status>: " prefix never holds "422": a 422 status is not prefixed.
IsValidationErr(err) == err # NoErr /\ err.words

Min(a, b) == IF a <= b THEN a ELSE b

\* the sleep grows without the cap
NextLockSleepUncapped(s) == (s * lock_backoff_factor_x10) \div 10

\* sleep_s = min(lock_backoff_cap, sleep_s * lock_backoff_factor)
NextLockSleep(s) == Min(lock_backoff_cap, (s * lock_backoff_factor_x10) \div 10)

Range(s) == {s[k] : k \in 1..Len(s)}

\* a left half that also holds the id before the first one
LeftHalfBefore(ids) == <<ids[1] - 1>> \o SubSeq(ids, 1, Len(ids) \div 2)

\* ids[:mid] and ids[mid:] with mid = len(ids) // 2
LeftHalf(ids) == SubSeq(ids, 1, Len(ids) \div 2)

\* a right half that is the whole batch
RightHalfWhole(ids) == ids

RightHalf(ids) == SubSeq(ids, (Len(ids) \div 2) + 1, Len(ids))

\* the payload of the second call of _divide_and_conquer_on_422
SecondCallPayload(ids) == LeftHalf(ids)

\* variant_ids[i : i + chunk_size], i counted from 1 here
ChunkAt(ids, i) == SubSeq(ids, i, Min(Len(ids), i + ChunkSize - 1))

VARIABLES
    oi,              \* index of the offer main() is at
    pc,              \* where the flow is
    bad,             \* 0: the remote answers freely; k: it answers 422 to
                     \* every payload that holds member k and 2xx to the rest
    variant_ids,     \* call_stoq_add_variants: the list to add
    i,               \* start of the current chunk (1-based)
    added_ok,
    skipped_invalid,
    first_error,
    err,             \* err of the top-level chunk, kept across the bisection
    stack,           \* frames of _divide_and_conquer_on_422: [ids, stage]
    cur,             \* ids of the running _try_add_chunk_with_lock_wait
    attempt,         \* attempt of the running _post_with_retries
    sleep_s,
    elapsed,         \* _t.time() - start
    res,             \* what _try_add_chunk_with_lock_wait returned
    disturbed,       \* calls of this add run the remote has disturbed
    probed,          \* payloads this lock wait sent and saw answered locked
    slept,           \* the sleeps of this lock wait so far, in order
    okSent,          \* members that were in the payload of a 2xx call
    aloneRejected,   \* members sent alone and answered 409/422 without lock
    lockFailed,      \* batches whose lock wait ended with the lock error
    hardFailed,      \* [ids, err] of the calls that ended with a status that
                     \* is not 2xx, 409 or 422
    valFailed,       \* batches that were answered 409/422 without lock text
    recovered,       \* batches whose first three calls were answered locked
                     \* and whose fourth call was answered 2xx
    processed,       \* offers main() went through
    paced,           \* the engine has slept since the last request it sent
                     \* for this offer, or has sent none yet
    retried          \* the last sleep of the running _post_with_retries:
                     \* [ra, attempt, delay], ra the Retry-After header

\* JW_Step09_AddVariantsToNewSellingPlan.py: stoq_add_variants
VARIABLES
    pc9,             \* where stoq_add_variants is ("off": it does not run)
    variant_ids9,    \* the list to add
    idx9,            \* start of the current chunk (1-based)
    known_existing,
    skipped_invalid9,
    stack9,          \* the running calls of _add_chunk_or_bisect
    payload9,        \* shopify_variant_ids of the running _post_with_retries
    attempt9,        \* attempt of the running _post_with_retries
    backoff9,        \* backoff of the running _post_with_retries
    retried9,        \* its last sleep: [ra, attempt, delay], ra the
                     \* Retry-After header of the response slept on
    ret9,            \* (success, skipped_ids) a call has just returned
    ok9,             \* first member of the tuple stoq_add_variants returned
    disturbed9,      \* calls the remote has disturbed so far
    okSent9,         \* members that were in the payload of a 2xx call
    strippedOk9,     \* members stripped as existing_variants from a batch
                     \* whose remainder was then answered 2xx
    sent9,           \* members that were in the payload of any call
    hard9,           \* payloads whose call returned False on a non-2xx,
                     \* non-422 response
    main9,           \* where main() of Step09 is with the offer
    status9          \* the status column of the offer's row

\* the offer as main() of Step09 sees it
main09 == <<main9, status9>>

step09 == <<pc9, variant_ids9, idx9, known_existing, skipped_invalid9, stack9,
            payload9, attempt9, backoff9, retried9, ret9, ok9, disturbed9,
            okSent9, strippedOk9, sent9, hard9, main09>>

\* the two reads and the set difference of main() in Step11 and Step12, and
\* the remote membership they reconcile
VARIABLES
    pcd,             \* where the reconciliation is ("off": it does not run)
    run,             \* 1: first reconciliation, 2: the one right after it
    db_rows,         \* variant_id values of the offer's rows in the DB
    remote,          \* variant ids the offer has on STOQ
    to_remove,
    to_add,
    to_remove_int,
    to_add_int,
    summary_add      \* summary returned by call_stoq_add_variants, if called

diffv == <<pcd, run, db_rows, remote, to_remove, to_add, to_remove_int,
           to_add_int, summary_add>>

step12 == <<oi, pc, bad, variant_ids, i, added_ok, skipped_invalid,
            first_error, err, stack, cur, attempt, sleep_s, elapsed, res,
            disturbed, probed, slept, okSent, aloneRejected, lockFailed,
            hardFailed, valFailed, recovered, processed, paced, retried>>

\* main() of JW_Step13_BulkUpdateDeliveryProfileId.py
VARIABLES
    pc13,            \* where main() is ("off": it does not run)
    rows13,          \* the normalized ids loaded from the DB, in row order
    remote13,        \* the variants the delivery profile holds
    hidden13,        \* those of them the listing returns on no page: they
                     \* are past the first page of their product's variants
    cursor13,        \* pages of profileItems the reader has consumed
    existing13,
    to_add13,
    to_remove13,
    bi13,            \* start of the next batch of the running phase
    removed_count13,
    added_count13,
    errors13,        \* remove_errors + add_errors
    tried13          \* the batches of to_remove the remove phase has sent

step13 == <<pc13, rows13, remote13, hidden13, cursor13, existing13, to_add13,
            to_remove13, bi13, removed_count13, added_count13, errors13,
            tried13>>

\* remove_variants_chunked of JW_Step11_RemoveVariantsFromExistingOffers.py
VARIABLES
    pc11,            \* where remove_variants_chunked is ("off": not running)
    vids11,          \* the list main() passes: to_remove, strings
    unique_vids11,
    bi11,            \* start of the current batch (1-based)
    ii11,            \* 0: the batch is sent whole; k: the per-item fallback
                     \* is at the k-th member of the batch
    removed_ok11,
    failed11,
    payload11,       \* variant_ids of the running call_stoq_remove_variants
    rattempt11,      \* attempt of the running _retry_remove_batch
    wattempt11,      \* attempt of the running with_retries
    sends11,         \* requests that carried the current batch whole
    okCalls11,       \* payloads of the requests answered 2xx
    aloneFailed11    \* members whose single-member call returned not ok

step11 == <<pc11, vids11, unique_vids11, bi11, ii11, removed_ok11, failed11,
            payload11, rattempt11, wattempt11, sends11, okCalls11,
            aloneFailed11>>

\* the calls one chunk costs the two add engines when the remote rejects
\* every call that holds one of its members
VARIABLES
    cost_pc,         \* "off", or "run" once the chunk and the member are set
    cost_chunk,      \* the chunk
    cost_bad,        \* the member the remote rejects
    cost_sent12,     \* payloads Step12 has sent for the chunk, in order
    cost_sent09      \* payloads Step09 has sent for the chunk, in order

costv == <<cost_pc, cost_chunk, cost_bad, cost_sent12, cost_sent09>>

\* main() of JW_Step08_DeleteSellingPlans.py
VARIABLES
    pc8,             \* where main() of Step08 is ("off": it does not run)
    key8,            \* STOQ_API_ACCESS_KEY is set
    rows8,           \* the offers table: rows [oid, status], oid the
                     \* stoq_offer_id; a removed row has status "removed"
    offer_ids8,      \* what fetch_offer_ids_to_delete returned
    idx8,            \* position of the loop in offer_ids
    attempt8,        \* attempt of the running delete_stoq_offer
    backoff8,        \* its backoff
    successes8,
    failures8,       \* the stoq_offer_id of every entry of failures
    update_failures8,
    written8,        \* what stoq_delete_failures.json holds, if written
    gone8,           \* offer ids whose DELETE the remote answered with
                     \* 200, 204 or 404
    tries8           \* per offer id the requests.delete calls made

step08 == <<pc8, key8, rows8, offer_ids8, idx8, attempt8, backoff8,
            successes8, failures8, update_failures8, written8, gone8,
            tries8>>

\* the non-interactive batch mode of main() in run_all.py
VARIABLES
    pcr,             \* where main() of run_all is ("off": it does not run)
    isolate,         \* args.isolate
    stop_on_failure, \* args.stop_on_failure
    dry_run,         \* args.dry_run
    env_ok,          \* the .env holds what Step03 checks when imported
    picked,          \* what parse_selection returned, as 1-based steps
    pos,             \* position of the loop in picked
    runpc,           \* where run_step_inproc is, in main()'s process or in
                     \* the child process
    active,          \* steps whose run has begun and not ended
    started,         \* the steps the runner was called for, in call order
    codes            \* the code the runner returned for each of them

runv == <<pcr, isolate, stop_on_failure, dry_run, env_ok, picked,
          pos, runpc, active, started, codes>>

\* the scripts that do not touch variants
tail == <<step08, runv>>

\* the scripts modelled further down
later == <<step13, step11, costv, tail>>

\* the state of the scripts other than Step12, Step09, the reconciliation
rest == <<step09, diffv, later>>
rest09 == <<step12, diffv, later, main09>>
restDiff == <<step12, step09, later>>
rest13 == <<step12, step09, diffv, step11, costv, tail>>
rest11 == <<step12, step09, diffv, step13, costv, tail>>
restCost == <<step12, step09, diffv, step13, step11, tail>>
rest08 == <<step12, step09, diffv, step13, step11, costv, runv>>
restRun == <<step12, step09, diffv, step13, step11, costv, step08>>

vars == <<oi, pc, bad, variant_ids, i, added_ok, skipped_invalid,
          first_error, err, stack, cur, attempt, sleep_s, elapsed, res,
          disturbed, probed, slept, okSent, aloneRejected, lockFailed,
          hardFailed, valFailed, recovered, processed, paced, retried,
          rest>>

engine == <<bad, variant_ids, i, added_ok, skipped_invalid, first_error, err, stack>>
waitv == <<cur, attempt, sleep_s, elapsed, probed, slept, paced, retried>>
ghost == <<okSent, aloneRejected, lockFailed, hardFailed, valFailed,
          recovered>>

NoError == [tag |-> "none"]

\* the running _post_with_retries has not slept
NoRetry == [none |-> TRUE]

\* nothing a call of _add_chunk_or_bisect has returned is waiting to be read
NoRet9 == [ok |-> TRUE, skipped |-> <<>>]

\* call_stoq_add_variants was not called
NoSummary == [none |-> TRUE]

\* no reconciliation runs
OffDiff ==
    /\ pcd = "off"
    /\ run = 1
    /\ db_rows = {}
    /\ remote = {}
    /\ to_remove = <<>>
    /\ to_add = <<>>
    /\ to_remove_int = <<>>
    /\ to_add_int = <<>>
    /\ summary_add = NoSummary

\* main() of Step13 does not run
Off13 ==
    /\ pc13 = "off"
    /\ rows13 = <<>>
    /\ remote13 = {}
    /\ hidden13 = {}
    /\ cursor13 = 0
    /\ existing13 = {}
    /\ to_add13 = <<>>
    /\ to_remove13 = <<>>
    /\ bi13 = 1
    /\ removed_count13 = 0
    /\ added_count13 = 0
    /\ errors13 = <<>>
    /\ tried13 = {}

\* remove_variants_chunked of Step11 does not run
Off11 ==
    /\ pc11 = "off"
    /\ vids11 = <<>>
    /\ unique_vids11 = <<>>
    /\ bi11 = 1
    /\ ii11 = 0
    /\ removed_ok11 = <<>>
    /\ failed11 = <<>>
    /\ payload11 = <<>>
    /\ rattempt11 = 0
    /\ wattempt11 = 1
    /\ sends11 = 0
    /\ okCalls11 = {}
    /\ aloneFailed11 = {}

\* none of the scripts modelled further down runs
\* no chunk is being costed
OffCost ==
    /\ cost_pc = "off"
    /\ cost_chunk = <<>>
    /\ cost_bad = 0
    /\ cost_sent12 = <<>>
    /\ cost_sent09 = <<>>

\* nothing was written to stoq_delete_failures.json
NotWritten == [none |-> TRUE]

\* main() of Step08 does not run
Off08 ==
    /\ pc8 = "off"
    /\ key8 = TRUE
    /\ rows8 = <<>>
    /\ offer_ids8 = <<>>
    /\ idx8 = 1
    /\ attempt8 = 1
    /\ backoff8 = INITIAL_BACKOFF_SEC
    /\ successes8 = <<>>
    /\ failures8 = <<>>
    /\ update_failures8 = <<>>
    /\ written8 = NotWritten
    /\ gone8 = {}
    /\ tries8 = <<>>

\* run_step_inproc: where it is, and the code it has returned
RunAt(at, code) == [at |-> at, code |-> code]
Idle == RunAt("idle", 0)

\* main() of run_all does not run
OffRun ==
    /\ pcr = "off"
    /\ isolate = FALSE
    /\ stop_on_failure = FALSE
    /\ dry_run = FALSE
    /\ env_ok = TRUE
    /\ picked = <<>>
    /\ pos = 1
    /\ runpc = Idle
    /\ active = {}
    /\ started = <<>>
    /\ codes = <<>>

OffTail ==
    /\ Off08
    /\ OffRun

OffLater ==
    /\ Off13
    /\ Off11
    /\ OffCost
    /\ OffTail

\* stoq_add_variants of Step09 is not running
Off09 ==
    /\ pc9 = "off"
    /\ variant_ids9 = <<>>
    /\ idx9 = 1
    /\ known_existing = {}
    /\ skipped_invalid9 = <<>>
    /\ stack9 = <<>>
    /\ payload9 = <<>>
    /\ attempt9 = 1
    /\ backoff9 = INITIAL_BACKOFF
    /\ retried9 = NoRetry
    /\ ret9 = NoRet9
    /\ ok9 = TRUE
    /\ disturbed9 = 0
    /\ okSent9 = {}
    /\ strippedOk9 = {}
    /\ sent9 = {}
    /\ hard9 = {}
    /\ main9 = "off"
    /\ status9 = "insert"

\* main() is at the top of its loop over the offers, about to take offer o
InitAt(o) ==
    /\ oi = o
    /\ pc = "main"
    /\ bad = 0
    /\ variant_ids = <<>>
    /\ i = 1
    /\ added_ok = <<>>
    /\ skipped_invalid = <<>>
    /\ first_error = NoError
    /\ err = NoErr
    /\ stack = <<>>
    /\ cur = <<>>
    /\ attempt = 0
    /\ sleep_s = lock_backoff_start
    /\ elapsed = 0
    /\ res = [ok |-> TRUE, err |-> NoErr]
    /\ disturbed = 0
    /\ probed = <<>>
    /\ slept = <<>>
    /\ okSent = {}
    /\ aloneRejected = {}
    /\ lockFailed = {}
    /\ hardFailed = {}
    /\ valFailed = {}
    /\ recovered = {}
    /\ processed = 1..(o - 1)
    /\ paced = TRUE
    /\ retried = NoRetry
    /\ Off09
    /\ OffDiff
    /\ OffLater

Init == InitAt(1)


(***************************************************************************)
(* main(): the loop over the offers.                                       *)
(***************************************************************************)
\* if not offer_id or not plan_id: raise RuntimeError(...)
MainMissingId ==
    /\ pc = "main"
    /\ oi <= MaxOffers
    /\ pc' = "raised"
    /\ UNCHANGED <<oi, engine, waitv, res, disturbed, ghost, processed, rest>>

\* get_variants_from_stoq_api: r.raise_for_status() or a transport error
\* raises; main() has no handler around it
MainReadFails ==
    /\ pc = "main"
    /\ oi <= MaxOffers
    /\ pc' = "raised"
    /\ UNCHANGED <<oi, engine, waitv, res, disturbed, ghost, processed, rest>>

\* to_add_int is empty: "ADD skipped (nothing to add)"
MainNothingToAdd ==
    /\ pc = "main"
    /\ oi <= MaxOffers
    /\ processed' = processed \cup {oi}
    /\ oi' = oi + 1
    /\ UNCHANGED <<pc, engine, waitv, res, disturbed, ghost, rest>>

\* the reads succeed, to_add_int has n members, at most most of them:
\* call_stoq_add_variants starts
MainCallAddUpTo(most) ==
    /\ pc = "main"
    /\ oi <= MaxOffers
    /\ \E n \in 1..most :
        /\ variant_ids' = [k \in 1..n |-> k]
        /\ bad' \in 0..n
    /\ pc' = "loop"
    /\ UNCHANGED <<oi, i, added_ok, skipped_invalid, first_error, err,
                   stack, waitv, res, disturbed, ghost,
                   processed, rest>>

MainCallAdd == MainCallAddUpTo(MaxMembers)

\* call_stoq_add_variants returned: main() prints and takes the next offer
MainAfterAdd ==
    /\ pc = "add_done"
    /\ processed' = processed \cup {oi}
    /\ oi' = oi + 1
    /\ pc' = "main"
    /\ variant_ids' = <<>>
    /\ bad' = 0
    /\ i' = 1
    /\ added_ok' = <<>>
    /\ skipped_invalid' = <<>>
    /\ first_error' = NoError
    /\ err' = NoErr
    /\ okSent' = {}
    /\ aloneRejected' = {}
    /\ lockFailed' = {}
    /\ hardFailed' = {}
    /\ valFailed' = {}
    /\ recovered' = {}
    /\ disturbed' = 0
    /\ paced' = TRUE
    /\ UNCHANGED <<stack, cur, attempt, sleep_s, elapsed, probed, slept,
                   retried, res, rest>>

\* the for loop of main() is exhausted
MainExit ==
    /\ pc = "main"
    /\ oi > MaxOffers
    /\ pc' = "exit"
    /\ UNCHANGED <<oi, engine, waitv, res, disturbed, ghost, processed, rest>>

(***************************************************************************)
(* call_stoq_add_variants: the loop over the chunks.                       *)
(***************************************************************************)
\* _try_add_chunk_with_lock_wait(ids) is entered: start = time(), sleep_s =
\* lock_backoff_start, and _post_with_retries starts with attempt = 0
StartLockWait(ids) ==
    /\ cur' = ids
    /\ attempt' = 0
    /\ sleep_s' = lock_backoff_start
    /\ elapsed' = 0
    /\ probed' = <<>>
    /\ slept' = <<>>
    /\ pc' = "post"
    /\ UNCHANGED <<paced, retried>>

NextChunk ==
    /\ pc = "loop"
    /\ i <= Len(variant_ids)
    /\ StartLockWait(ChunkAt(variant_ids, i))
    /\ UNCHANGED <<oi, engine, res, disturbed, ghost,
                   processed, rest>>

\* overall_ok of the returned tuple
OverallOk ==
    Len(added_ok) > 0 /\ (Len(skipped_invalid) = 0 \/ Len(added_ok) >= 1)

Finish ==
    /\ pc = "loop"
    /\ i > Len(variant_ids)
    /\ pc' = "add_done"
    /\ UNCHANGED <<oi, engine, waitv, res, disturbed, ghost, processed, rest>>

(***************************************************************************)
(* One requests.post of _post_with_retries, and what _try_add_chunk and    *)
(* _try_add_chunk_with_lock_wait do with its answer.                       *)
(***************************************************************************)
\* the innermost running call of _divide_and_conquer_on_422 (see below)
Top == stack[Len(stack)]
Popped == SubSeq(stack, 1, Len(stack) - 1)
WithStage(st) == [stack EXCEPT ![Len(stack)].stage = st]

\* the lock wait returns (ok, err) to its caller; its locals are gone
LockWaitReturns(r) ==
    /\ res' = r
    /\ pc' = "ret"
    /\ cur' = <<>>
    /\ attempt' = 0
    /\ sleep_s' = lock_backoff_start
    /\ elapsed' = 0
    /\ probed' = <<>>
    /\ slept' = <<>>
    /\ paced' = FALSE
    /\ retried' = NoRetry

\* the caller has read the returned tuple
NoRes == [ok |-> TRUE, err |-> NoErr]

\* a faulty variant of LockRetryBatch: the wait goes on with the first half
LockRetryHalf(ids) == SubSeq(ids, 1, (Len(ids) + 1) \div 2)

\* the ids _try_add_chunk_with_lock_wait passes to _try_add_chunk again after
\* a lock answer: "wait and retry this SAME chunk (don't split)"
LockRetryBatch(ids) == ids

\* the lock answer came within the budget: sleep, grow sleep_s, call again
LockWaitSleeps(d) ==
    /\ elapsed' = elapsed + d + sleep_s
    /\ sleep_s' = NextLockSleep(sleep_s)
    /\ attempt' = 0
    /\ probed' = Append(probed, cur)
    /\ slept' = Append(slept, sleep_s)
    /\ cur' = LockRetryBatch(cur)
    /\ paced' = TRUE
    /\ retried' = NoRetry
    /\ UNCHANGED <<res, pc>>

\* the answers the remote may give to a non-transient call with these ids
Answers(ids) ==
    IF bad = 0 THEN FinalResponses
    ELSE IF bad \in Range(ids) THEN {R422words} ELSE {R200}

\* resp.headers.get("Retry-After"): absent, an HTTP date (float() raises
\* ValueError) or a number of seconds
RetryAfter(kind, secs) == [kind |-> kind, secs |-> secs]
RetryAfterHeaders ==
    {RetryAfter("absent", 0), RetryAfter("date", 0),
     RetryAfter("seconds", 7 * base_backoff)}

\* base_backoff * (2 ** (attempt - 1))
Backoff(base, a) == base * 2 ^ (a - 1)

\* the delay _post_with_retries of Step12 sleeps after a 429/5xx answer, a
\* being attempt after its increment
RetryDelay(ra, a) ==
    IF ra.kind = "seconds" THEN ra.secs ELSE Backoff(base_backoff, a)

\* a faulty variant of RetriesExhausted: one more retry is granted
RetriesExhaustedLate(a) == a > max_retries + 1

\* if attempt > max_retries (attempt already counts the failure at hand)
RetriesExhausted(a) == a > max_retries

\* requests.post raised RequestException
PostNetErr ==
    /\ pc = "post"
    /\ bad = 0
    /\ attempt = 0 => disturbed < MaxDisturbed
    /\ disturbed' = IF attempt = 0 THEN disturbed + 1 ELSE disturbed
    /\ attempt' = attempt + 1
    /\ pc' = IF RetriesExhausted(attempt + 1) THEN "raised" ELSE "post"
    /\ IF RetriesExhausted(attempt + 1)
       THEN paced' = FALSE /\ UNCHANGED retried
       ELSE /\ paced' = TRUE
            /\ retried' = [ra |-> RetryAfter("absent", 0),
                           attempt |-> attempt + 1,
                           delay |-> Backoff(base_backoff, attempt + 1)]
    /\ UNCHANGED <<oi, engine, cur, sleep_s, elapsed, probed, slept, res,
                   ghost, processed, rest>>

\* the answer is 429 or 5xx
PostTransient ==
    /\ pc = "post"
    /\ bad = 0
    /\ attempt = 0 => disturbed < MaxDisturbed
    /\ disturbed' = IF attempt = 0 THEN disturbed + 1 ELSE disturbed
    /\ \E r \in TransientResponses :
        /\ IsTransientStatus(r.status)
        /\ IF RetriesExhausted(attempt + 1)
           THEN /\ LockWaitReturns(TryAddChunkResult(r))
                /\ hardFailed' = hardFailed \cup
                      {[ids |-> cur, err |-> TryAddChunkResult(r).err]}
           ELSE /\ attempt' = attempt + 1
                /\ paced' = TRUE
                /\ \E ra \in RetryAfterHeaders :
                      retried' = [ra |-> ra, attempt |-> attempt + 1,
                                  delay |-> RetryDelay(ra, attempt + 1)]
                /\ UNCHANGED <<cur, sleep_s, elapsed, probed, slept, res, pc,
                               hardFailed>>
    /\ UNCHANGED <<oi, engine, okSent, aloneRejected, lockFailed, valFailed,
                   recovered, processed, rest>>

\* the answer is 2xx
PostOk ==
    /\ pc = "post"
    /\ \E r \in Answers(cur) :
        /\ ~IsTransientStatus(r.status)
        /\ TryAddChunkResult(r).ok
        /\ LockWaitReturns(TryAddChunkResult(r))
    /\ okSent' = okSent \cup Range(cur)
    /\ recovered' =
          IF Len(probed) = 3 /\ (stack = <<>> \/ Top.stage = "left")
          THEN recovered \cup {cur} ELSE recovered
    /\ UNCHANGED <<oi, engine, disturbed, aloneRejected, lockFailed,
                   hardFailed, valFailed, processed, rest>>

\* the time one call of _try_add_chunk may take: next to none, or a second
\* short of the timeout of its requests.post
CallTimes == {0, timeout - lock_backoff_start}

\* the answer is a failure whose text says that a job is in progress; the
\* call took d, so time() - start is elapsed + d when the budget is tested
PostLocked ==
    /\ pc = "post"
    /\ probed = <<>> => disturbed < MaxDisturbed
    /\ Len(probed) < MaxLockProbes
    /\ \E r \in Answers(cur), d \in CallTimes :
        /\ ~IsTransientStatus(r.status)
        /\ ~TryAddChunkResult(r).ok
        /\ r.lock
        /\ IF IsJobInProgress(TryAddChunkResult(r).err)
              /\ elapsed + d < lock_wait_seconds
           THEN /\ LockWaitSleeps(d)
                /\ UNCHANGED lockFailed
           ELSE /\ LockWaitReturns(TryAddChunkResult(r))
                /\ lockFailed' = lockFailed \cup {cur}
    /\ disturbed' = IF probed = <<>> THEN disturbed + 1 ELSE disturbed
    /\ UNCHANGED <<oi, engine, okSent, aloneRejected, hardFailed, valFailed,
                   recovered, processed, rest>>

\* the answer is any other failure: 409/422 without the lock text, or
\* another non-2xx status
PostRejected ==
    /\ pc = "post"
    /\ \E r \in Answers(cur) :
        /\ ~IsTransientStatus(r.status)
        /\ ~TryAddChunkResult(r).ok
        /\ ~r.lock
        /\ IF IsJobInProgress(TryAddChunkResult(r).err)
           THEN LockWaitSleeps(0)
           ELSE LockWaitReturns(TryAddChunkResult(r))
        /\ aloneRejected' =
              IF Len(cur) = 1 /\ r.status \in {409, 422}
              THEN aloneRejected \cup Range(cur) ELSE aloneRejected
        /\ valFailed' =
              IF r.status \in {409, 422}
              THEN valFailed \cup {cur} ELSE valFailed
        /\ hardFailed' =
              IF r.status \notin {409, 422}
              THEN hardFailed \cup
                      {[ids |-> cur, err |-> TryAddChunkResult(r).err]}
              ELSE hardFailed
    /\ UNCHANGED <<oi, engine, disturbed, okSent, lockFailed, recovered,
                   processed, rest>>

(***************************************************************************)
(* call_stoq_add_variants: what the loop does with the chunk's result.     *)
(***************************************************************************)
SetFirstError(e) == IF first_error = NoError THEN e ELSE first_error

\* if ok: added_ok.extend(chunk); continue
TopOk ==
    /\ pc = "ret"
    /\ stack = <<>>
    /\ res.ok
    /\ added_ok' = added_ok \o ChunkAt(variant_ids, i)
    /\ i' = i + ChunkSize
    /\ pc' = "loop"
    /\ res' = NoRes
    /\ UNCHANGED <<oi, bad, variant_ids, skipped_invalid, first_error, err,
                   stack, waitv, disturbed, ghost,
                   processed, rest>>

\* the err text passes the 422 test: _divide_and_conquer_on_422(chunk)
TopBisect ==
    /\ pc = "ret"
    /\ stack = <<>>
    /\ ~res.ok
    /\ IsValidationErr(res.err)
    /\ err' = res.err
    /\ stack' = <<[ids |-> ChunkAt(variant_ids, i), stage |-> "enter"]>>
    /\ pc' = "dnc"
    /\ res' = NoRes
    /\ UNCHANGED <<oi, bad, variant_ids, i, added_ok, skipped_invalid,
                   first_error, waitv, disturbed, ghost,
                   processed, rest>>

\* any other err: first_error is set if it is still None, next chunk
TopFail ==
    /\ pc = "ret"
    /\ stack = <<>>
    /\ ~res.ok
    /\ ~IsValidationErr(res.err)
    /\ first_error' = SetFirstError([tag |-> "err", err |-> res.err])
    /\ i' = i + ChunkSize
    /\ pc' = "loop"
    /\ res' = NoRes
    /\ UNCHANGED <<oi, bad, variant_ids, added_ok, skipped_invalid, err,
                   stack, waitv, disturbed, ghost,
                   processed, rest>>

(***************************************************************************)
(* _divide_and_conquer_on_422.  A frame is the ids of one call and the     *)
(* place the call is at: enter, left (the first lock wait is running or    *)
(* has returned), mid (the left half is dealt with), right (the second     *)
(* lock wait), end (the recursion on the right half is running).           *)
(***************************************************************************)
\* a call of _divide_and_conquer_on_422 returns; the outermost one returns
\* to call_stoq_add_variants, which sets first_error and continues
ReturnFromDnc ==
    /\ stack' = Popped
    /\ IF Popped = <<>>
       THEN /\ first_error' = SetFirstError([tag |-> "some_ids", err |-> err])
            /\ i' = i + ChunkSize
            /\ pc' = "loop"
       ELSE /\ pc' = "dnc"
            /\ UNCHANGED <<first_error, i>>

\* if not ids: return;  if len(ids) == 1: skipped_invalid.append(ids[0])
DncBase ==
    /\ pc = "dnc"
    /\ Top.stage = "enter"
    /\ Len(Top.ids) <= 1
    /\ skipped_invalid' =
          IF Len(Top.ids) = 1 THEN Append(skipped_invalid, Top.ids[1])
          ELSE skipped_invalid
    /\ ReturnFromDnc
    /\ UNCHANGED <<oi, bad, variant_ids, added_ok, err, waitv, res,
                   disturbed, ghost, processed, rest>>

\* the first _try_add_chunk_with_lock_wait, on left
DncSplit ==
    /\ pc = "dnc"
    /\ Top.stage = "enter"
    /\ Len(Top.ids) > 1
    /\ stack' = WithStage("left")
    /\ StartLockWait(LeftHalf(Top.ids))
    /\ UNCHANGED <<oi, bad, variant_ids, i, added_ok, skipped_invalid,
                   first_error, err, res, disturbed, ghost,
                   processed, rest>>

\* if ok: added_ok.extend(left) else: recurse on left
DncLeftReturn ==
    /\ pc = "ret"
    /\ stack # <<>>
    /\ Top.stage = "left"
    /\ IF res.ok
       THEN /\ added_ok' = added_ok \o LeftHalf(Top.ids)
            /\ stack' = WithStage("mid")
       ELSE /\ stack' = Append(WithStage("mid"),
                               [ids |-> LeftHalf(Top.ids), stage |-> "enter"])
            /\ UNCHANGED added_ok
    /\ pc' = "dnc"
    /\ res' = NoRes
    /\ UNCHANGED <<oi, bad, variant_ids, i, skipped_invalid, first_error,
                   err, waitv, disturbed, ghost, processed, rest>>

\* the second _try_add_chunk_with_lock_wait
DncSecondCall ==
    /\ pc = "dnc"
    /\ Top.stage = "mid"
    /\ stack' = WithStage("right")
    /\ StartLockWait(SecondCallPayload(Top.ids))
    /\ UNCHANGED <<oi, bad, variant_ids, i, added_ok, skipped_invalid,
                   first_error, err, res, disturbed, ghost,
                   processed, rest>>

\* if ok: added_ok.extend(right) else: recurse on right
DncRightReturn ==
    /\ pc = "ret"
    /\ stack # <<>>
    /\ Top.stage = "right"
    /\ IF res.ok
       THEN /\ added_ok' = added_ok \o RightHalf(Top.ids)
            /\ ReturnFromDnc
       ELSE /\ stack' = Append(WithStage("end"),
                               [ids |-> RightHalf(Top.ids), stage |-> "enter"])
            /\ pc' = "dnc"
            /\ UNCHANGED <<added_ok, first_error, i>>
    /\ res' = NoRes
    /\ UNCHANGED <<oi, bad, variant_ids, skipped_invalid, err, waitv,
                   disturbed, ghost, processed, rest>>

\* the recursion on right returned, and so does this call
DncEnd ==
    /\ pc = "dnc"
    /\ Top.stage = "end"
    /\ ReturnFromDnc
    /\ UNCHANGED <<oi, bad, variant_ids, added_ok, skipped_invalid, err,
                   waitv, res, disturbed, ghost, processed, rest>>

Next ==
    \/ MainMissingId
    \/ MainReadFails
    \/ MainNothingToAdd
    \/ MainCallAdd
    \/ MainAfterAdd
    \/ MainExit
    \/ NextChunk
    \/ Finish
    \/ PostNetErr
    \/ PostTransient
    \/ PostOk
    \/ PostLocked
    \/ PostRejected
    \/ TopOk
    \/ TopBisect
    \/ TopFail
    \/ DncBase
    \/ DncSplit
    \/ DncLeftReturn
    \/ DncSecondCall
    \/ DncRightReturn
    \/ DncEnd

Spec == Init /\ [][Next]_vars

(***************************************************************************)
(* SpecLive: main() of Step12 at its last offer, with a to_add_int of at   *)
(* most one chunk.  The script is one sequential flow that always takes    *)
(* its next step, and every requests.post ends in an answer, an exception  *)
(* or its timeout: weak fairness of the step relation.                     *)
(***************************************************************************)
InitLive == InitAt(MaxOffers)

MainCallAddOneChunk == MainCallAddUpTo(ChunkSize)

NextLive ==
    \/ MainMissingId
    \/ MainReadFails
    \/ MainNothingToAdd
    \/ MainCallAddOneChunk
    \/ MainAfterAdd
    \/ MainExit
    \/ NextChunk
    \/ Finish
    \/ PostNetErr
    \/ PostTransient
    \/ PostOk
    \/ PostLocked
    \/ PostRejected
    \/ TopOk
    \/ TopBisect
    \/ TopFail
    \/ DncBase
    \/ DncSplit
    \/ DncLeftReturn
    \/ DncSecondCall
    \/ DncRightReturn
    \/ DncEnd

SpecLive == InitLive /\ [][NextLive]_vars /\ WF_vars(NextLive)

(***************************************************************************)
(* Spec09: stoq_add_variants of JW_Step09_AddVariantsToNewSellingPlan.py.  *)
(* A frame of stack9 is one call of _add_chunk_or_bisect: its batch, the   *)
(* place it is at (first, second, third: the _post_with_retries it waits   *)
(* for; left, right: the recursive call it waits for), rem = the           *)
(* batch_to_bisect, and ok_left, skipped_left once the left call returned. *)
(***************************************************************************)
MAX_RETRIES == 3

\* a response of the remote: its status and the existing_variants of its body
Resp9(s, e) == [status |-> s, existing |-> e]

\* the statuses _post_with_retries sleeps on and sends again
RetryStatuses9 == {429, 500, 502, 503, 504}

\* the answers _post_with_retries returns at once
FinalResponses9 ==
    {Resp9(200, {}), Resp9(422, {}), Resp9(400, {})}
        \cup {Resp9(422, {e}) : e \in 1..MaxMembers}
TransientResponses9 == {Resp9(500, {}), Resp9(429, {})}

\* what the running _post_with_retries may return: any final answer, or a
\* 429/5xx when this is the last attempt
Returned9 ==
    FinalResponses9 \cup
        (IF attempt9 = MAX_RETRIES THEN TransientResponses9 ELSE {})

\* [v for v in batch if v not in existing]
Without(batch, existing) == SelectSeq(batch, LAMBDA v : v \notin existing)

Frame9(batch, stage) ==
    [batch |-> batch, stage |-> stage, rem |-> <<>>, ok_left |-> TRUE,
     skipped_left |-> <<>>]

Top9 == stack9[Len(stack9)]
Popped9 == SubSeq(stack9, 1, Len(stack9) - 1)
Replaced9(f) == [stack9 EXCEPT ![Len(stack9)] = f]

\* Step12 does not run
Off12 ==
    /\ oi = 1
    /\ pc = "off"
    /\ bad = 0
    /\ variant_ids = <<>>
    /\ i = 1
    /\ added_ok = <<>>
    /\ skipped_invalid = <<>>
    /\ first_error = NoError
    /\ err = NoErr
    /\ stack = <<>>
    /\ cur = <<>>
    /\ attempt = 0
    /\ sleep_s = lock_backoff_start
    /\ elapsed = 0
    /\ res = [ok |-> TRUE, err |-> NoErr]
    /\ disturbed = 0
    /\ probed = <<>>
    /\ slept = <<>>
    /\ okSent = {}
    /\ aloneRejected = {}
    /\ lockFailed = {}
    /\ hardFailed = {}
    /\ valFailed = {}
    /\ recovered = {}
    /\ processed = {}
    /\ paced = TRUE
    /\ retried = NoRetry


\* main() has fetched the ids of an offer (sorted, distinct) and calls
\* stoq_add_variants
Init09 ==
    /\ Off12
    /\ OffDiff
    /\ OffLater
    /\ pc9 = "start"
    /\ variant_ids9 = <<>>
    /\ idx9 = 1
    /\ known_existing = {}
    /\ skipped_invalid9 = <<>>
    /\ stack9 = <<>>
    /\ payload9 = <<>>
    /\ attempt9 = 1
    /\ backoff9 = INITIAL_BACKOFF
    /\ retried9 = NoRetry
    /\ ret9 = NoRet9
    /\ ok9 = TRUE
    /\ disturbed9 = 0
    /\ okSent9 = {}
    /\ strippedOk9 = {}
    /\ sent9 = {}
    /\ hard9 = {}
    /\ main9 = "offer"
    /\ status9 = "insert"

\* if not variant_ids: return True, {"message": "No variants to add."}
AddNothing9 ==
    /\ pc9 = "start"
    /\ pc9' = "done"
    /\ ok9' = TRUE
    /\ UNCHANGED <<rest09, hard9, variant_ids9, idx9, known_existing,
                   skipped_invalid9, stack9, payload9, attempt9,
                   backoff9, retried9, sent9, ret9,
                   disturbed9, okSent9, strippedOk9>>

Start9 ==
    /\ pc9 = "start"
    /\ \E n \in 1..MaxMembers : variant_ids9' = [k \in 1..n |-> k]
    /\ pc9' = "loop"
    /\ UNCHANGED <<rest09, hard9, idx9, known_existing, skipped_invalid9, stack9,
                   payload9, attempt9, backoff9, retried9, sent9, ret9,
                   ok9, disturbed9, okSent9,
                   strippedOk9>>

\* _post_with_retries(url, headers, payload_for(ids)) is entered
StartPost9(ids) ==
    /\ payload9' = ids
    /\ attempt9' = 1
    /\ backoff9' = INITIAL_BACKOFF
    /\ retried9' = NoRetry
    /\ sent9' = sent9 \cup Range(ids)
    /\ pc9' = "post"

\* the for loop over chunked(variant_ids, CHUNK_SIZE): the batch without the
\* known_existing ids is skipped when empty, else _add_chunk_or_bisect(batch)
NextChunk9 ==
    /\ pc9 = "loop"
    /\ idx9 <= Len(variant_ids9)
    /\ LET batch == Without(ChunkAt(variant_ids9, idx9), known_existing)
       IN IF batch = <<>>
          THEN /\ idx9' = idx9 + ChunkSize
               /\ UNCHANGED <<stack9, payload9, attempt9, backoff9,
                            retried9, sent9, pc9>>
          ELSE /\ stack9' = <<Frame9(batch, "first")>>
               /\ StartPost9(batch)
               /\ UNCHANGED idx9
    /\ UNCHANGED <<rest09, hard9, variant_ids9, known_existing, skipped_invalid9,
                   ret9, ok9, disturbed9, okSent9, strippedOk9>>

\* return True, {"message": "All chunks processed.", ...}
Finish9 ==
    /\ pc9 = "loop"
    /\ idx9 > Len(variant_ids9)
    /\ pc9' = "done"
    /\ ok9' = TRUE
    /\ UNCHANGED <<rest09, hard9, variant_ids9, idx9, known_existing,
                   skipped_invalid9, stack9, payload9, attempt9,
                   backoff9, retried9, sent9, ret9,
                   disturbed9, okSent9, strippedOk9>>

(***************************************************************************)
(* _post_with_retries of Step09 and what _add_chunk_or_bisect does with    *)
(* the response it returns.                                                *)
(***************************************************************************)
\* time.sleep(backoff); backoff *= 2, after a response that carried the
\* Retry-After header ra or after a RequestException
Sleep9(ra) ==
    /\ retried9' = [ra |-> ra, attempt |-> attempt9, delay |-> backoff9]
    /\ backoff9' = backoff9 * 2
    /\ UNCHANGED sent9

\* except requests.RequestException: raise on the last attempt, else sleep
\* and take the next attempt
PostNetErr9 ==
    /\ pc9 = "post"
    /\ attempt9 = 1 => disturbed9 < MaxDisturbed
    /\ disturbed9' = IF attempt9 = 1 THEN disturbed9 + 1 ELSE disturbed9
    /\ IF attempt9 = MAX_RETRIES
       THEN pc9' = "raised" /\ UNCHANGED <<attempt9, backoff9, retried9, sent9>>
       ELSE /\ attempt9' = attempt9 + 1
            /\ Sleep9(RetryAfter("absent", 0))
            /\ UNCHANGED pc9
    /\ UNCHANGED <<rest09, hard9, variant_ids9, idx9, known_existing,
                   skipped_invalid9, stack9, payload9, ret9, ok9, okSent9,
                   strippedOk9>>

\* a status of (429, 500, 502, 503, 504) and attempt < MAX_RETRIES: sleep and
\* take the next attempt
PostTransient9 ==
    /\ pc9 = "post"
    /\ attempt9 = 1 => disturbed9 < MaxDisturbed
    /\ \E r \in TransientResponses9 :
        /\ r.status \in RetryStatuses9
        /\ attempt9 < MAX_RETRIES
    /\ disturbed9' = IF attempt9 = 1 THEN disturbed9 + 1 ELSE disturbed9
    /\ attempt9' = attempt9 + 1
    /\ \E ra \in RetryAfterHeaders : Sleep9(ra)
    /\ UNCHANGED <<rest09, hard9, pc9, variant_ids9, idx9, known_existing,
                   skipped_invalid9, stack9, payload9, ret9, ok9, okSent9,
                   strippedOk9>>

\* the running call of _add_chunk_or_bisect returns (ok, skipped)
Return9(ok, skipped) ==
    /\ ret9' = [ok |-> ok, skipped |-> skipped]
    /\ stack9' = Popped9
    /\ pc9' = "ret"
    /\ payload9' = <<>>
    /\ attempt9' = 1
    /\ backoff9' = INITIAL_BACKOFF
    /\ retried9' = NoRetry
    /\ UNCHANGED sent9

\* the bisect strategy on batch_to_bisect b: a single id is returned as
\* skipped; else the call recurses on the left half first
Bisect9(b) ==
    IF Len(b) = 1
    THEN Return9(TRUE, b)
    ELSE /\ stack9' = Append(Replaced9([Top9 EXCEPT !.stage = "left", !.rem = b]),
                             Frame9(LeftHalf(b), "first"))
         /\ StartPost9(LeftHalf(b))
         /\ UNCHANGED ret9

\* 2xx for the batch, the remainder or the second remainder: return True, []
RespOk9 ==
    /\ pc9 = "post"
    /\ \E r \in Returned9 : 200 <= r.status /\ r.status < 300
    /\ Return9(TRUE, <<>>)
    /\ okSent9' = okSent9 \cup Range(payload9)
    /\ strippedOk9' = strippedOk9 \cup (Range(Top9.batch) \ Range(payload9))
    /\ UNCHANGED <<rest09, hard9, variant_ids9, idx9, known_existing,
                   skipped_invalid9, ok9, disturbed9>>

\* 422 whose body names existing_variants, for the batch or the remainder:
\* strip them; nothing left: return True, []; else post the remainder
RespStrip9 ==
    /\ pc9 = "post"
    /\ Top9.stage \in {"first", "second"}
    /\ \E r \in Returned9 :
        /\ r.status = 422
        /\ r.existing # {}
        /\ LET remainder == Without(payload9, r.existing)
           IN IF remainder = <<>>
              THEN Return9(TRUE, <<>>)
              ELSE /\ stack9' = Replaced9(
                          [Top9 EXCEPT !.stage = IF Top9.stage = "first"
                                                 THEN "second" ELSE "third",
                                       !.rem = remainder])
                   /\ StartPost9(remainder)
                   /\ UNCHANGED ret9
    /\ UNCHANGED <<rest09, hard9, variant_ids9, idx9, known_existing,
                   skipped_invalid9, ok9, disturbed9, okSent9, strippedOk9>>

\* 422 without existing_variants for the batch or the remainder, or any
\* non-2xx for the second remainder: bisect what was just sent
RespBisect9 ==
    /\ pc9 = "post"
    /\ \E r \in Returned9 :
        /\ ~(200 <= r.status /\ r.status < 300)
        /\ \/ Top9.stage = "third"
           \/ Top9.stage \in {"first", "second"}
                /\ r.status = 422 /\ r.existing = {}
    /\ Bisect9(payload9)
    /\ UNCHANGED <<rest09, hard9, variant_ids9, idx9, known_existing,
                   skipped_invalid9, ok9, disturbed9, okSent9, strippedOk9>>

\* non-2xx non-422 for the batch or the remainder: return False, <what was sent>
RespHard9 ==
    /\ pc9 = "post"
    /\ Top9.stage \in {"first", "second"}
    /\ \E r \in Returned9 :
        /\ ~(200 <= r.status /\ r.status < 300)
        /\ r.status # 422
    /\ Return9(FALSE, payload9)
    /\ hard9' = hard9 \cup {payload9}
    /\ UNCHANGED <<rest09, variant_ids9, idx9, known_existing,
                   skipped_invalid9, ok9, disturbed9, okSent9, strippedOk9>>

\* ok_left, skipped_left = _add_chunk_or_bisect(left) has returned: the call
\* on the right half follows
RetLeft9 ==
    /\ pc9 = "ret"
    /\ stack9 # <<>>
    /\ Top9.stage = "left"
    /\ stack9' = Append(Replaced9([Top9 EXCEPT !.stage = "right",
                                               !.ok_left = ret9.ok,
                                               !.skipped_left = ret9.skipped]),
                        Frame9(RightHalf(Top9.rem), "first"))
    /\ StartPost9(RightHalf(Top9.rem))
    /\ ret9' = NoRet9
    /\ UNCHANGED <<rest09, hard9, variant_ids9, idx9, known_existing,
                   skipped_invalid9, ok9, disturbed9, okSent9, strippedOk9>>

\* return (ok_left and ok_right), skipped_left + skipped_right
RetRight9 ==
    /\ pc9 = "ret"
    /\ stack9 # <<>>
    /\ Top9.stage = "right"
    /\ ret9' = [ok |-> Top9.ok_left /\ ret9.ok,
                skipped |-> Top9.skipped_left \o ret9.skipped]
    /\ stack9' = Popped9
    /\ UNCHANGED <<rest09, hard9, pc9, variant_ids9, idx9, known_existing,
                   skipped_invalid9, payload9, attempt9, backoff9,
                   retried9, sent9, ok9, disturbed9,
                   okSent9, strippedOk9>>

\* the loop goes on to the next chunk whatever the call returned
RetTopGoesOn9 ==
    /\ pc9 = "ret"
    /\ stack9 = <<>>
    /\ skipped_invalid9' = skipped_invalid9 \o ret9.skipped
    /\ known_existing' = known_existing \cup Range(ret9.skipped)
    /\ idx9' = idx9 + ChunkSize
    /\ pc9' = "loop"
    /\ UNCHANGED ok9
    /\ ret9' = NoRet9
    /\ UNCHANGED <<rest09, hard9, variant_ids9, stack9, payload9, attempt9,
                   backoff9, retried9, sent9,
                   disturbed9, okSent9, strippedOk9>>

\* ok, skipped = _add_chunk_or_bisect(batch) has returned to the loop: the
\* skipped ids are recorded; not ok: return False, {...}
RetTop9 ==
    /\ pc9 = "ret"
    /\ stack9 = <<>>
    /\ skipped_invalid9' = skipped_invalid9 \o ret9.skipped
    /\ known_existing' = known_existing \cup Range(ret9.skipped)
    /\ IF ret9.ok
       THEN /\ idx9' = idx9 + ChunkSize
            /\ pc9' = "loop"
            /\ UNCHANGED ok9
       ELSE /\ pc9' = "done"
            /\ ok9' = FALSE
            /\ UNCHANGED idx9
    /\ ret9' = NoRet9
    /\ UNCHANGED <<rest09, hard9, variant_ids9, stack9, payload9, attempt9,
                   backoff9, retried9, sent9,
                   disturbed9, okSent9, strippedOk9>>

\* MARK_DONE_ON_SUCCESS = "true": a non-empty string, which if takes as true
MARK_DONE_ON_SUCCESS == TRUE

\* the state of stoq_add_variants, which main() of Step09 has called
add09 == <<pc9, variant_ids9, idx9, known_existing, skipped_invalid9, stack9,
           payload9, attempt9, backoff9, retried9, ret9, ok9, disturbed9,
           okSent9, strippedOk9, sent9, hard9>>

\* if not plan_id: print(...); continue: stoq_add_variants is not called
MissingPlan9 ==
    /\ main9 = "offer"
    /\ pc9 = "start"
    /\ pc9' = "off"
    /\ main9' = "skipped"
    /\ UNCHANGED <<step12, diffv, later, status9, variant_ids9, idx9,
                   known_existing, skipped_invalid9, stack9, payload9,
                   attempt9, backoff9, retried9, ret9, ok9, disturbed9,
                   okSent9, strippedOk9, sent9, hard9>>

\* mark_offer_done: the update of the row to "insert-completed" is executed,
\* or it raises and the row is left as it was
mark_offer_done ==
    \/ status9' = "insert-completed"
    \/ UNCHANGED status9

\* the offer is marked whatever stoq_add_variants returned
OfferSucceededAnyway9 ==
    /\ main9 = "offer"
    /\ pc9 = "done"
    /\ main9' = "succeeded"
    /\ IF MARK_DONE_ON_SUCCESS THEN mark_offer_done ELSE UNCHANGED status9
    /\ UNCHANGED <<step12, diffv, later, add09>>

\* if ok: succeeded += 1; if MARK_DONE_ON_SUCCESS: try: mark_offer_done(...)
\* except Exception: print(...)
OfferSucceeded9 ==
    /\ main9 = "offer"
    /\ pc9 = "done"
    /\ ok9
    /\ main9' = "succeeded"
    /\ IF MARK_DONE_ON_SUCCESS THEN mark_offer_done ELSE UNCHANGED status9
    /\ UNCHANGED <<step12, diffv, later, add09>>

\* else: failures.append({...})
OfferFailed9 ==
    /\ main9 = "offer"
    /\ pc9 = "done"
    /\ ~ok9
    /\ main9' = "failed"
    /\ UNCHANGED <<step12, diffv, later, add09, status9>>

Next09 ==
    \/ MissingPlan9
    \/ OfferSucceeded9
    \/ OfferFailed9
    \/ AddNothing9
    \/ Start9
    \/ NextChunk9
    \/ Finish9
    \/ PostNetErr9
    \/ PostTransient9
    \/ RespOk9
    \/ RespStrip9
    \/ RespBisect9
    \/ RespHard9
    \/ RetLeft9
    \/ RetRight9
    \/ RetTop9

Spec09 == Init09 /\ [][Next09]_vars

\* save_skipped_invalid has no caller: neither stoq_add_variants nor main()
\* of Step09 writes a file, so these are the audit records Step09 has written
SavedSkipped9 == {}

\* Step12: if write_skipped_file and skipped_invalid: the list is dumped to
\* a file and the file is named in summary["skipped_file"]
SavedSkipped12 == IF skipped_invalid # <<>> THEN {skipped_invalid} ELSE {}

\* both add engines: Step12's main() or Step09's stoq_add_variants runs
SpecAdd == (Init \/ Init09) /\ [][Next \/ Next09]_vars

(***************************************************************************)
(* SpecDiff: the reconciliation of one offer by main() of Step11 (remove)  *)
(* and then main() of Step12 (add), run twice in succession.  A value is   *)
(* what a row or an API entry holds: form "int" is the integer n, "str"    *)
(* the string of its digits ("123"), "dot0" the string "123.0", "bad" a    *)
(* string with no number in it.  The remote answers every call with 2xx.   *)
(***************************************************************************)
Value(f, n) == [form |-> f, n |-> n]

\* the values a DB row may hold
RawValues ==
    {Value(f, n) : f \in {"int", "str", "dot0"}, n \in 1..MaxId}
        \cup {Value("bad", 0)}

\* str(x)
PyStr(v) == IF v.form = "int" THEN Value("str", v.n) ELSE v

\* int(x) does not raise ValueError/TypeError
CanInt(v) == v.form \in {"int", "str"}

RECURSIVE Digits(_)
\* the decimal digits of n, most significant first
Digits(n) == IF n < 10 THEN <<n>> ELSE Append(Digits(n \div 10), n % 10)

\* the code points of the string a value is after str(): "0".."9" are
\* 48..57, "." is 46, and the string without a number is a letter
Chars(v) ==
    LET ds == [k \in 1..Len(Digits(v.n)) |-> 48 + Digits(v.n)[k]]
    IN IF v.form = "bad" THEN <<120>>
       ELSE IF v.form = "dot0" THEN ds \o <<46, 48>>
       ELSE ds

RECURSIVE StrLess(_, _)
\* a < b on Python strings: by code point, a proper prefix first
StrLess(a, b) ==
    IF a = <<>> THEN b # <<>>
    ELSE IF b = <<>> THEN FALSE
    ELSE IF a[1] # b[1] THEN a[1] < b[1]
    ELSE StrLess(Tail(a), Tail(b))

RECURSIVE Sorted(_)
\* sorted(list(S)), S a set of strings
Sorted(S) ==
    IF S = {} THEN <<>>
    ELSE LET m == CHOOSE x \in S :
                     \A y \in S \ {x} : StrLess(Chars(x), Chars(y))
         IN <<m>> \o Sorted(S \ {m})

\* _coerce_ids_to_int: the values int() accepts, as integers, in order; the
\* others are printed and left out
CoerceIdsToInt(ids) ==
    LET ok == SelectSeq(ids, CanInt)
    IN [k \in 1..Len(ok) |-> ok[k].n]

\* get_variants_from_stoq_api: str(v["shopify_variant_id"]) of every variant
\* of the offer
SetApi == {PyStr(Value("int", n)) : n \in remote}
\* fetch_variants_for_offer_ids: str(row["variant_id"]) of every row
SetDb == {PyStr(v) : v \in db_rows}

InitDiff ==
    /\ Off12
    /\ Off09
    /\ OffLater
    /\ pcd = "step11"
    /\ run = 1
    /\ db_rows \in SUBSET RawValues
    /\ remote \in SUBSET (1..MaxId)
    /\ to_remove = <<>>
    /\ to_add = <<>>
    /\ to_remove_int = <<>>
    /\ to_add_int = <<>>
    /\ summary_add = NoSummary

\* the part main() of Step11 and of Step12 share: both reads, the two set
\* differences and the coercion to int
Compare ==
    /\ to_remove' = Sorted(SetApi \ SetDb)
    /\ to_add' = Sorted(SetDb \ SetApi)
    /\ to_remove_int' = CoerceIdsToInt(Sorted(SetApi \ SetDb))
    /\ to_add_int' = CoerceIdsToInt(Sorted(SetDb \ SetApi))

\* Step11 main(): compare
Compare11 ==
    /\ pcd = "step11"
    /\ Compare
    /\ pcd' = "remove"
    /\ UNCHANGED <<restDiff, run, db_rows, remote, summary_add>>

\* Step11 main(): remove_variants_chunked(vids=to_remove); it coerces the
\* ids itself and every batch it sends is removed
Remove11 ==
    /\ pcd = "remove"
    /\ remote' = remote \ Range(CoerceIdsToInt(to_remove))
    /\ pcd' = "step12"
    /\ UNCHANGED <<restDiff, run, db_rows, to_remove, to_add,
                   to_remove_int, to_add_int, summary_add>>

\* Step12 main(): compare
Compare12 ==
    /\ pcd = "step12"
    /\ Compare
    /\ pcd' = "add"
    /\ UNCHANGED <<restDiff, run, db_rows, remote, summary_add>>

\* the reconciliation is over: the next one starts, or nothing follows the
\* second one
AfterAdd == IF run = 1 THEN "step11" ELSE "end"

\* Step12 main(): to_add_int is not empty: call_stoq_add_variants, every
\* chunk of which is answered 2xx
Add12 ==
    /\ pcd = "add"
    /\ to_add_int # <<>>
    /\ remote' = remote \cup Range(to_add_int)
    /\ summary_add' = [requested_count |-> Len(to_add_int),
                       added_ok_count |-> Len(to_add_int),
                       skipped_invalid_count |-> 0]
    /\ pcd' = AfterAdd
    /\ run' = IF run = 1 THEN 2 ELSE run
    /\ UNCHANGED <<restDiff, db_rows, to_remove, to_add, to_remove_int,
                   to_add_int>>

\* Step12 main(): to_add_int is empty: "ADD skipped (nothing to add)"
AddSkipped12 ==
    /\ pcd = "add"
    /\ to_add_int = <<>>
    /\ summary_add' = NoSummary
    /\ pcd' = AfterAdd
    /\ run' = IF run = 1 THEN 2 ELSE run
    /\ UNCHANGED <<restDiff, db_rows, remote, to_remove, to_add,
                   to_remove_int, to_add_int>>

NextDiff ==
    \/ Compare11
    \/ Remove11
    \/ Compare12
    \/ Add12
    \/ AddSkipped12

SpecDiff == InitDiff /\ [][NextDiff]_vars

(***************************************************************************)
(* Spec13: main() of JW_Step13_BulkUpdateDeliveryProfileId.py after the    *)
(* rows are loaded: the paginated read of the profile's variants, the two  *)
(* work lists, the remove phase and the add phase.  Every product of the   *)
(* profile is one profile item; its variants past the first page of its    *)
(* variants connection (first: 250) are the hidden ones.                   *)
(***************************************************************************)
Gids == 1..MaxGid

RECURSIVE AscSeq(_)
\* the members of a set of integers in ascending order
AscSeq(S) ==
    IF S = {} THEN <<>>
    ELSE LET m == CHOOSE x \in S : \A y \in S : x <= y
         IN <<m>> \o AscSeq(S \ {m})

RECURSIVE Dedupe(_)
\* list(dict.fromkeys(normalized)): first occurrences, in order
Dedupe(seq) ==
    IF seq = <<>> THEN <<>>
    ELSE LET init == Dedupe(SubSeq(seq, 1, Len(seq) - 1))
             last == seq[Len(seq)]
         IN IF last \in Range(init) THEN init ELSE Append(init, last)

\* the orders in which iterating a Python set of strings may yield S
Perms(S) ==
    {f \in [1..Cardinality(S) -> S] : \A a, b \in 1..Cardinality(S) :
                                        f[a] = f[b] => a = b}

\* the profile items the listing returns: one per variant that is on the
\* first page of its product; the hidden variants belong to the first item
Listing13 ==
    LET shown == AscSeq(remote13 \ hidden13)
    IN [k \in 1..Len(shown) |->
           [shown |-> {shown[k]},
            hidden |-> IF k = 1 THEN hidden13 ELSE {}]]

\* pages of profileItems the listing has
NumPages13 == (Len(Listing13) + PageSize13 - 1) \div PageSize13

\* edges of page k
Page13(k) ==
    SubSeq(Listing13, (k - 1) * PageSize13 + 1,
           Min(Len(Listing13), k * PageSize13))

\* batch of a work list that starts at index b
Batch13(list, b) == SubSeq(list, b, Min(Len(list), b + BatchSize13 - 1))

SeqsUpTo(S, n) == UNION {[1..k -> S] : k \in 0..n}

Init13 ==
    /\ Off12
    /\ Off09
    /\ OffDiff
    /\ Off11
    /\ OffCost
    /\ OffTail
    /\ pc13 = "fetch"
    /\ rows13 \in SeqsUpTo(Gids, MaxRows13)
    /\ remote13 \in SUBSET Gids
    /\ hidden13 \in SUBSET remote13
    /\ hidden13 # {} => remote13 \ hidden13 # {}
    /\ cursor13 = 0
    /\ existing13 = {}
    /\ to_add13 = <<>>
    /\ to_remove13 = <<>>
    /\ bi13 = 1
    /\ removed_count13 = 0
    /\ added_count13 = 0
    /\ errors13 = <<>>
    /\ tried13 = {}

\* get_existing_variant_ids_in_profile: one turn of the while loop.  The ids
\* of variants.edges of every edge are added; pageInfo of variants is not
\* looked at.
ReadPage13 ==
    /\ pc13 = "fetch"
    /\ LET page == Page13(cursor13 + 1)
       IN existing13' = existing13 \cup
                           UNION {page[k].shown : k \in 1..Len(page)}
    /\ cursor13' = cursor13 + 1
    /\ pc13' = IF cursor13 + 1 < NumPages13 THEN "fetch" ELSE "compute"
    /\ UNCHANGED <<rest13, rows13, remote13, hidden13, to_add13, to_remove13,
                   bi13, removed_count13, added_count13, errors13, tried13>>

\* _post_graphql raises (HTTP error, GraphQL errors) or the profile is not
\* found: main() has no handler
ReadFails13 ==
    /\ pc13 = "fetch"
    /\ pc13' = "raised"
    /\ UNCHANGED <<rest13, rows13, remote13, hidden13, cursor13, existing13,
                   to_add13, to_remove13, bi13, removed_count13,
                   added_count13, errors13, tried13>>

\* to_add = [vid for vid in unique_variant_ids if vid not in existing]
\* to_remove = [vid for vid in existing if vid not in desired_set]
Compute13 ==
    /\ pc13 = "compute"
    /\ to_add13' = SelectSeq(Dedupe(rows13), LAMBDA v : v \notin existing13)
    /\ to_remove13' \in Perms(existing13 \ Range(rows13))
    /\ pc13' = "remove"
    /\ bi13' = 1
    /\ UNCHANGED <<rest13, rows13, remote13, hidden13, cursor13, existing13,
                   removed_count13, added_count13, errors13, tried13>>

\* what a deliveryProfileUpdate call may end in: no userErrors, userErrors,
\* or _post_graphql raised
Outcomes13 == {"ok", "userErrors", "raised"}

\* remove_variants_from_profile: one batch of to_remove
RemoveBatch13 ==
    /\ pc13 = "remove"
    /\ bi13 <= Len(to_remove13)
    /\ LET batch == Batch13(to_remove13, bi13)
       IN /\ tried13' = tried13 \cup {batch}
          /\ \E o \in Outcomes13 :
                IF o = "ok"
                THEN /\ remote13' = remote13 \ Range(batch)
                     /\ removed_count13' = removed_count13 + Len(batch)
                     /\ UNCHANGED errors13
                ELSE /\ errors13' = Append(errors13,
                            [op |-> "dissociate", memberIds |-> batch,
                             kind |-> o])
                     /\ UNCHANGED <<remote13, removed_count13>>
    /\ bi13' = bi13 + BatchSize13
    /\ UNCHANGED <<rest13, pc13, rows13, hidden13, cursor13, existing13,
                   to_add13, to_remove13, added_count13>>

\* the remove phase is over (or to_remove is empty): the add phase starts
StartAdd13 ==
    /\ pc13 = "remove"
    /\ bi13 > Len(to_remove13)
    /\ pc13' = "add"
    /\ bi13' = 1
    /\ UNCHANGED <<rest13, rows13, remote13, hidden13, cursor13, existing13,
                   to_add13, to_remove13, removed_count13, added_count13,
                   errors13, tried13>>

\* add_variants_to_profile: one batch of to_add
AddBatch13 ==
    /\ pc13 = "add"
    /\ bi13 <= Len(to_add13)
    /\ LET batch == Batch13(to_add13, bi13)
       IN \E o \in Outcomes13 :
             IF o = "ok"
             THEN /\ remote13' = remote13 \cup Range(batch)
                  /\ added_count13' = added_count13 + Len(batch)
                  /\ UNCHANGED errors13
             ELSE /\ errors13' = Append(errors13,
                         [op |-> "associate", memberIds |-> batch,
                          kind |-> o])
                  /\ UNCHANGED <<remote13, added_count13>>
    /\ bi13' = bi13 + BatchSize13
    /\ UNCHANGED <<rest13, pc13, rows13, hidden13, cursor13, existing13,
                   to_add13, to_remove13, removed_count13, tried13>>

\* the summary is printed and main() returns
Summary13 ==
    /\ pc13 = "add"
    /\ bi13 > Len(to_add13)
    /\ pc13' = "done"
    /\ UNCHANGED <<rest13, rows13, remote13, hidden13, cursor13, existing13,
                   to_add13, to_remove13, bi13, removed_count13,
                   added_count13, errors13, tried13>>

Next13 ==
    \/ ReadPage13
    \/ ReadFails13
    \/ Compute13
    \/ RemoveBatch13
    \/ StartAdd13
    \/ AddBatch13
    \/ Summary13

Spec13 == Init13 /\ [][Next13]_vars

(***************************************************************************)
(* Spec11: remove_variants_chunked of Step11, called by main() with        *)
(* vids = to_remove, and _retry_remove_batch, call_stoq_remove_variants    *)
(* and with_retries below it.  One action is one requests.delete.          *)
(***************************************************************************)
Vids11 == FirstVid..(FirstVid + MaxVids11 - 1)

\* what a requests.delete may end in: a 2xx answer, or a failure: HTTP 503,
\* HTTP 400, or a RequestException whose text names the connection
Errors11 == {"HTTP 503", "HTTP 400", "RequestException: connection"}

\* transient = err and any(t in err for t in ("429", "502", "503", "504",
\* "timeout", "connection", "Temporary"))
Transient11(e) == e \in {"HTTP 503", "RequestException: connection"}

\* seq[i:i+size] of chunked, i counted from 1
Batch11(seq, b) == SubSeq(seq, b, Min(Len(seq), b + RemoveBatchSize - 1))

\* main() of Step11 has compared the reads of an offer and calls
\* remove_variants_chunked(vids=to_remove): the strings of the ids that are
\* on STOQ only, in the order of sorted()
Init11 ==
    /\ Off12
    /\ Off09
    /\ OffDiff
    /\ Off13
    /\ OffCost
    /\ OffTail
    /\ pc11 = "start"
    /\ vids11 \in {Sorted({Value("str", n) : n \in S}) : S \in SUBSET Vids11}
    /\ unique_vids11 = <<>>
    /\ bi11 = 1
    /\ ii11 = 0
    /\ removed_ok11 = <<>>
    /\ failed11 = <<>>
    /\ payload11 = <<>>
    /\ rattempt11 = 0
    /\ wattempt11 = 1
    /\ sends11 = 0
    /\ okCalls11 = {}
    /\ aloneFailed11 = {}

\* unique_vids = sorted(set(_coerce_ids_to_int(vids)))
Start11 ==
    /\ pc11 = "start"
    /\ unique_vids11' = AscSeq(Range(CoerceIdsToInt(vids11)))
    /\ pc11' = "loop"
    /\ UNCHANGED <<rest11, vids11, bi11, ii11, removed_ok11, failed11,
                   payload11, rattempt11, wattempt11, sends11, okCalls11,
                   aloneFailed11>>

\* for batch in chunked(unique_vids, batch_size): _retry_remove_batch(batch)
NextBatch11 ==
    /\ pc11 = "loop"
    /\ bi11 <= Len(unique_vids11)
    /\ payload11' = Batch11(unique_vids11, bi11)
    /\ ii11' = 0
    /\ rattempt11' = 0
    /\ wattempt11' = 1
    /\ sends11' = 0
    /\ pc11' = "send"
    /\ UNCHANGED <<rest11, vids11, unique_vids11, bi11, removed_ok11,
                   failed11, okCalls11, aloneFailed11>>

\* the loop is exhausted: the summary is returned
Finish11 ==
    /\ pc11 = "loop"
    /\ bi11 > Len(unique_vids11)
    /\ pc11' = "done"
    /\ UNCHANGED <<rest11, vids11, unique_vids11, bi11, ii11, removed_ok11,
                   failed11, payload11, rattempt11, wattempt11, sends11,
                   okCalls11, aloneFailed11>>

\* the batch is dealt with: the loop takes the next one
BatchDone11 ==
    /\ bi11' = bi11 + RemoveBatchSize
    /\ pc11' = "loop"
    /\ ii11' = 0
    /\ payload11' = <<>>
    /\ rattempt11' = 0
    /\ wattempt11' = 1

\* for vid in batch: the next member of the fallback, or the batch is done
NextItem11 ==
    LET batch == Batch11(unique_vids11, bi11)
    IN IF ii11 < Len(batch)
       THEN /\ ii11' = ii11 + 1
            /\ payload11' = <<batch[ii11 + 1]>>
            /\ wattempt11' = 1
            /\ UNCHANGED <<bi11, pc11, rattempt11>>
       ELSE BatchDone11

\* the request counts as one of the whole batch
Sent11 == IF ii11 = 0 THEN sends11 + 1 ELSE sends11

\* only the first member of the sent payload is recorded
RemovedOkFirst(list, sent) == Append(list, sent[1])

\* removed_ok.extend(batch) / removed_ok.append(vid)
RemovedOk(list, sent) == list \o sent

\* the answer is 2xx: with_retries, call_stoq_remove_variants (and
\* _retry_remove_batch) return ok
RequestOk11 ==
    /\ pc11 = "send"
    /\ sends11' = Sent11
    /\ okCalls11' = okCalls11 \cup {payload11}
    /\ removed_ok11' = RemovedOk(removed_ok11, payload11)
    /\ IF ii11 = 0 THEN BatchDone11 ELSE NextItem11
    /\ UNCHANGED <<rest11, vids11, unique_vids11, failed11, aloneFailed11>>

\* the request fails and attempt < RETRY_TIMES: with_retries sleeps and sends
\* the same request again
RequestRetry11 ==
    /\ pc11 = "send"
    /\ wattempt11 < RETRY_TIMES
    /\ wattempt11' = wattempt11 + 1
    /\ sends11' = Sent11
    /\ UNCHANGED <<rest11, pc11, vids11, unique_vids11, bi11, ii11,
                   removed_ok11, failed11, payload11, rattempt11, okCalls11,
                   aloneFailed11>>

\* the test with attempt <= max_retries: one call more
RetryBatchAgainLate(a, e) == a <= REMOVE_MAX_RETRIES /\ Transient11(e)

\* if attempt < max_retries and transient: sleep and call again
RetryBatchAgain(a, e) == a < REMOVE_MAX_RETRIES /\ Transient11(e)

\* the last attempt of with_retries fails with e: call_stoq_remove_variants
\* returns (False, None, e).  For a whole batch _retry_remove_batch calls
\* again or gives up, and then the per-item fallback starts; for a single
\* member of the fallback the member is appended to failed.
RequestFailsLast11 ==
    /\ pc11 = "send"
    /\ wattempt11 = RETRY_TIMES
    /\ sends11' = Sent11
    /\ \E e \in Errors11 :
        IF ii11 = 0
        THEN /\ IF RetryBatchAgain(rattempt11, e)
                THEN /\ rattempt11' = rattempt11 + 1
                     /\ wattempt11' = 1
                     /\ UNCHANGED <<ii11, payload11>>
                ELSE /\ ii11' = 1
                     /\ payload11' = <<payload11[1]>>
                     /\ wattempt11' = 1
                     /\ rattempt11' = 0
             /\ UNCHANGED <<bi11, pc11, failed11, aloneFailed11>>
        ELSE /\ failed11' = Append(failed11,
                    [variant_id |-> payload11[1], error |-> e])
             /\ aloneFailed11' = aloneFailed11 \cup {payload11[1]}
             /\ NextItem11
    /\ UNCHANGED <<rest11, vids11, unique_vids11, removed_ok11, okCalls11>>

Next11 ==
    \/ Start11
    \/ NextBatch11
    \/ Finish11
    \/ RequestOk11
    \/ RequestRetry11
    \/ RequestFailsLast11

Spec11 == Init11 /\ [][Next11]_vars

(***************************************************************************)
(* SpecCost: the calls one chunk costs.  The remote answers 422 without a  *)
(* list to every call that holds the member cost_bad and 2xx to every      *)
(* other call; no call is disturbed.  Sends12 and Sends09 are the payloads *)
(* the two engines send for the chunk, in the order of the code.           *)
(***************************************************************************)
\* the remote accepts the payload
Accepts(ids, k) == k \notin Range(ids)

\* _divide_and_conquer_on_422(ids): nothing for at most one id; else the
\* first call with left and, if it fails, the recursion on left; then the
\* second call and, if it fails, the recursion on right
RECURSIVE DncSends12(_, _)
DncSends12(ids, k) ==
    IF Len(ids) <= 1 THEN <<>>
    ELSE <<LeftHalf(ids)>>
         \o (IF Accepts(LeftHalf(ids), k)
             THEN <<>> ELSE DncSends12(LeftHalf(ids), k))
         \o <<SecondCallPayload(ids)>>
         \o (IF Accepts(SecondCallPayload(ids), k)
             THEN <<>> ELSE DncSends12(RightHalf(ids), k))

\* call_stoq_add_variants for one chunk: the whole chunk and, if it is
\* rejected, _divide_and_conquer_on_422(chunk)
Sends12(chunk, k) ==
    <<chunk>> \o (IF Accepts(chunk, k) THEN <<>> ELSE DncSends12(chunk, k))

\* _add_chunk_or_bisect(batch) on a 422 without existing_variants: a single
\* id is skipped, else the recursion on left and on right
RECURSIVE Sends09(_, _)
Sends09(batch, k) ==
    IF batch = <<>> THEN <<>>
    ELSE <<batch>>
         \o (IF Accepts(batch, k) \/ Len(batch) = 1 THEN <<>>
             ELSE Sends09(LeftHalf(batch), k) \o Sends09(RightHalf(batch), k))

\* a chunk of 1..MaxChunk members, one of which the remote rejects
InitCost ==
    /\ Off12
    /\ Off09
    /\ OffDiff
    /\ Off13
    /\ Off11
    /\ OffTail
    /\ cost_pc = "run"
    /\ \E n \in 1..MaxChunk : cost_chunk = [j \in 1..n |-> j]
    /\ cost_bad \in Range(cost_chunk)
    /\ cost_sent12 = <<>>
    /\ cost_sent09 = <<>>

\* Step12 works the chunk off
Engine12Runs ==
    /\ cost_pc = "run"
    /\ cost_sent12 = <<>>
    /\ cost_sent12' = Sends12(cost_chunk, cost_bad)
    /\ UNCHANGED <<restCost, cost_pc, cost_chunk, cost_bad, cost_sent09>>

\* Step09 works the chunk off
Engine09Runs ==
    /\ cost_pc = "run"
    /\ cost_sent09 = <<>>
    /\ cost_sent09' = Sends09(cost_chunk, cost_bad)
    /\ UNCHANGED <<restCost, cost_pc, cost_chunk, cost_bad, cost_sent12>>

NextCost ==
    \/ Engine12Runs
    \/ Engine09Runs

SpecCost == InitCost /\ [][NextCost]_vars

(***************************************************************************)
(* main() of JW_Step08_DeleteSellingPlans.py with delete_stoq_offer, one   *)
(* action per requests.delete, update_supabase_status and the final delete *)
(* of the rows with status "delete-completed".                             *)
(***************************************************************************)
Oids8 == 1..MaxOid8
RowStatuses8 == {"delete", "update"}
Row8(o, st) == [oid |-> o, status |-> st]

\* the offer id the loop of main() is at
Oid8 == offer_ids8[idx8]

\* out of fetch_offer_ids_to_delete: the stoq_offer_id of the rows with
\* status "delete" in row order, each once
RECURSIVE FetchedIds8(_, _)
FetchedIds8(rows, seen) ==
    IF rows = <<>>
    THEN <<>>
    ELSE IF Head(rows).status = "delete" /\ Head(rows).oid \notin seen
         THEN <<Head(rows).oid>> \o
                  FetchedIds8(Tail(rows), seen \cup {Head(rows).oid})
         ELSE FetchedIds8(Tail(rows), seen)

Init08 ==
    /\ Off12
    /\ Off09
    /\ OffDiff
    /\ Off13
    /\ Off11
    /\ OffCost
    /\ OffRun
    /\ pc8 = "fetch"
    /\ key8 \in BOOLEAN
    /\ rows8 \in UNION {[1..n -> {Row8(o, st) : o \in Oids8,
                                               st \in RowStatuses8}] :
                        n \in 0..MaxRows8}
    /\ offer_ids8 = <<>>
    /\ idx8 = 1
    /\ attempt8 = 1
    /\ backoff8 = INITIAL_BACKOFF_SEC
    /\ successes8 = <<>>
    /\ failures8 = <<>>
    /\ update_failures8 = <<>>
    /\ written8 = NotWritten
    /\ gone8 = {}
    /\ tries8 = [o \in Oids8 |-> 0]

\* offer_ids = fetch_offer_ids_to_delete(); if not offer_ids: return
Fetch8 ==
    /\ pc8 = "fetch"
    /\ offer_ids8' = FetchedIds8(rows8, {})
    /\ pc8' = IF offer_ids8' = <<>> THEN "exit" ELSE "loop"
    /\ UNCHANGED <<rest08, key8, rows8, idx8, attempt8, backoff8, successes8,
                   failures8, update_failures8, written8, gone8, tries8>>

\* raise RuntimeError(f"Supabase fetch error: ...")
FetchRaises8 ==
    /\ pc8 = "fetch"
    /\ pc8' = "raised"
    /\ UNCHANGED <<rest08, key8, rows8, offer_ids8, idx8, attempt8, backoff8,
                   successes8, failures8, update_failures8, written8, gone8,
                   tries8>>

\* for idx, offer_id in enumerate(offer_ids, start=1): delete_stoq_offer is
\* entered; without STOQ_API_ACCESS_KEY it raises RuntimeError
EnterDelete8 ==
    /\ pc8 = "loop"
    /\ idx8 <= Len(offer_ids8)
    /\ pc8' = IF key8 THEN "delete" ELSE "raised"
    /\ attempt8' = 1
    /\ backoff8' = INITIAL_BACKOFF_SEC
    /\ UNCHANGED <<rest08, key8, rows8, offer_ids8, idx8, successes8,
                   failures8, update_failures8, written8, gone8, tries8>>

\* one requests.delete(url, ...) is made
Tried8 == tries8' = [tries8 EXCEPT ![Oid8] = @ + 1]

\* return False, None, err; in main(): failures.append({...})
DeleteFailed8 ==
    /\ failures8' = Append(failures8, Oid8)
    /\ idx8' = idx8 + 1
    /\ pc8' = "loop"
    /\ UNCHANGED <<attempt8, backoff8, successes8>>

\* time.sleep(backoff); backoff *= 2; continue
Retry8 ==
    /\ attempt8' = attempt8 + 1
    /\ backoff8' = backoff8 * 2
    /\ UNCHANGED <<pc8, idx8, failures8, successes8>>

\* return True, ...; in main(): successes.append(offer_id)
DeleteSucceeded8 ==
    /\ successes8' = Append(successes8, Oid8)
    /\ pc8' = "update"
    /\ UNCHANGED <<attempt8, backoff8, idx8, failures8>>

\* except requests.RequestException
DelNetErr8 ==
    /\ pc8 = "delete"
    /\ Tried8
    /\ IF attempt8 < MAX_RETRIES_8 THEN Retry8 ELSE DeleteFailed8
    /\ UNCHANGED <<rest08, key8, rows8, offer_ids8, update_failures8,
                   written8, gone8>>

\* resp.status_code in (200, 204), or resp.status_code == 404, which is
\* treated as success
DelOk8 ==
    /\ pc8 = "delete"
    /\ Tried8
    /\ gone8' = gone8 \cup {Oid8}
    /\ DeleteSucceeded8
    /\ UNCHANGED <<rest08, key8, rows8, offer_ids8, update_failures8,
                   written8>>

\* resp.status_code == 429 or 500 <= resp.status_code <= 599: retried while
\* attempt < MAX_RETRIES, else the http_error return
DelTransient8 ==
    /\ pc8 = "delete"
    /\ \E st \in {429, 500, 503} : st = 429 \/ (500 <= st /\ st <= 599)
    /\ Tried8
    /\ IF attempt8 < MAX_RETRIES_8 THEN Retry8 ELSE DeleteFailed8
    /\ UNCHANGED <<rest08, key8, rows8, offer_ids8, update_failures8,
                   written8, gone8>>

\* any other status is taken as a delete that succeeded
DelHttpErrAsSuccess8 ==
    /\ pc8 = "delete"
    /\ \E st \in {400, 401, 301} :
        /\ st \notin {200, 204, 404, 429}
        /\ ~(500 <= st /\ st <= 599)
    /\ Tried8
    /\ DeleteSucceeded8
    /\ UNCHANGED <<rest08, key8, rows8, offer_ids8, update_failures8,
                   written8, gone8>>

\* any other status: return False, None, f"http_error ..."
DelHttpErr8 ==
    /\ pc8 = "delete"
    /\ \E st \in {400, 401, 301} :
        /\ st \notin {200, 204, 404, 429}
        /\ ~(500 <= st /\ st <= 599)
    /\ Tried8
    /\ DeleteFailed8
    /\ UNCHANGED <<rest08, key8, rows8, offer_ids8, update_failures8,
                   written8, gone8>>

\* the PATCH of update_supabase_status: every row whose stoq_offer_id is o
\* gets the new status
Patched8(o, new_status) ==
    [k \in DOMAIN rows8 |->
        IF rows8[k].oid = o /\ rows8[k].status # "removed"
        THEN [rows8[k] EXCEPT !.status = new_status]
        ELSE rows8[k]]

\* update_supabase_status(offer_id, "delete-completed") returns True
UpdateOk8 ==
    /\ pc8 = "update"
    /\ rows8' = Patched8(Oid8, "delete-completed")
    /\ idx8' = idx8 + 1
    /\ pc8' = "loop"
    /\ UNCHANGED <<rest08, key8, offer_ids8, attempt8, backoff8, successes8,
                   failures8, update_failures8, written8, gone8, tries8>>

\* it returns False (a status other than 200, 204):
\* update_failures.append(offer_id)
UpdateFails8 ==
    /\ pc8 = "update"
    /\ update_failures8' = Append(update_failures8, Oid8)
    /\ idx8' = idx8 + 1
    /\ pc8' = "loop"
    /\ UNCHANGED <<rest08, key8, rows8, offer_ids8, attempt8, backoff8,
                   successes8, failures8, written8, gone8, tries8>>

\* requests.patch raises: main() ends; the PATCH may have reached the table
UpdateRaises8 ==
    /\ pc8 = "update"
    /\ rows8' \in {rows8, Patched8(Oid8, "delete-completed")}
    /\ pc8' = "raised"
    /\ UNCHANGED <<rest08, key8, offer_ids8, idx8, attempt8, backoff8,
                   successes8, failures8, update_failures8, written8, gone8,
                   tries8>>

\* the summary: stoq_delete_failures.json is written if either list holds
\* an entry
Summary8 ==
    /\ pc8 = "loop"
    /\ idx8 > Len(offer_ids8)
    /\ written8' = IF failures8 # <<>> \/ update_failures8 # <<>>
                   THEN [stoq_failures |-> failures8,
                         supabase_update_failures |-> update_failures8]
                   ELSE NotWritten
    /\ pc8' = "table_delete"
    /\ UNCHANGED <<rest08, key8, rows8, offer_ids8, idx8, attempt8, backoff8,
                   successes8, failures8, update_failures8, gone8, tries8>>

\* supabase.table(...).delete().eq("status", "delete-completed").execute()
TableDelete8 ==
    /\ pc8 = "table_delete"
    /\ rows8' = [k \in DOMAIN rows8 |->
                    IF rows8[k].status = "delete-completed"
                    THEN [rows8[k] EXCEPT !.status = "removed"]
                    ELSE rows8[k]]
    /\ pc8' = "exit"
    /\ UNCHANGED <<rest08, key8, offer_ids8, idx8, attempt8, backoff8,
                   successes8, failures8, update_failures8, written8, gone8,
                   tries8>>

\* create_client or execute() raises
TableDeleteRaises8 ==
    /\ pc8 = "table_delete"
    /\ pc8' = "raised"
    /\ UNCHANGED <<rest08, key8, rows8, offer_ids8, idx8, attempt8, backoff8,
                   successes8, failures8, update_failures8, written8, gone8,
                   tries8>>

Next08 ==
    \/ Fetch8
    \/ FetchRaises8
    \/ EnterDelete8
    \/ DelNetErr8
    \/ DelOk8
    \/ DelTransient8
    \/ DelHttpErr8
    \/ UpdateOk8
    \/ UpdateFails8
    \/ UpdateRaises8
    \/ Summary8
    \/ TableDelete8
    \/ TableDeleteRaises8

Spec08 == Init08 /\ [][Next08]_vars

(***************************************************************************)
(* run_all.py: main() with --select, parse_selection, run_step_inproc and  *)
(* run_step_isolated.  Step 2 stands for Step03, whose module body raises   *)
(* SystemExit when its configuration is missing; the other steps stand for *)
(* the steps whose import raises nothing that leaves run_step_inproc.      *)
(***************************************************************************)
StepIds == 1..NSteps
ExitAtImportSteps == {2}

\* the values of --select: "all", "none", or comma-separated chunks, a chunk
\* <<k>> for "k" and <<a, b>> for "a-b", numbers as typed (1-based)
SelectChunks ==
    {<<k>> : k \in 0..(NSteps + 1)} \cup
    {<<a, b>> : a \in 0..NSteps, b \in 1..(NSteps + 1)}
Selection(word, chunks) == [word |-> word, chunks |-> chunks]
Selections ==
    {Selection("all", <<>>), Selection("none", <<>>)} \cup
    {Selection("list", c) :
        c \in UNION {[1..n -> SelectChunks] : n \in 1..MaxChunks}}

\* what parsing gives: a list of indices, or the ValueError raised
Parsed(ids) == [error |-> FALSE, ids |-> ids]
ValueError == [error |-> TRUE, ids |-> <<>>]

\* the 0-based indices one chunk stands for
ChunkPicks(chunk, total) ==
    IF Len(chunk) = 2
    THEN LET a == chunk[1] - 1
             b == chunk[2] - 1
         IN IF a < 0 \/ b >= total \/ a > b
            THEN ValueError
            ELSE Parsed([k \in 1..(b - a + 1) |-> a + k - 1])
    ELSE LET k == chunk[1] - 1
         IN IF k < 0 \/ k >= total THEN ValueError ELSE Parsed(<<k>>)

\* de-dup while preserving order
RECURSIVE DedupKeepFirst(_, _)
DedupKeepFirst(list, seen) ==
    IF list = <<>>
    THEN <<>>
    ELSE IF Head(list) \in seen
         THEN DedupKeepFirst(Tail(list), seen)
         ELSE <<Head(list)>> \o
                  DedupKeepFirst(Tail(list), seen \cup {Head(list)})

RECURSIVE PickedOf(_, _)
PickedOf(chunks, total) ==
    IF chunks = <<>>
    THEN Parsed(<<>>)
    ELSE LET first == ChunkPicks(Head(chunks), total)
             others == PickedOf(Tail(chunks), total)
         IN IF first.error \/ others.error
            THEN ValueError
            ELSE Parsed(first.ids \o others.ids)

\* parse_selection(selection, total): 0-based indices, or the ValueError
parse_selection(selection, total) ==
    IF selection.word = "all"
    THEN Parsed([k \in 1..total |-> k - 1])
    ELSE IF selection.word = "none"
         THEN Parsed(<<>>)
         ELSE LET all == PickedOf(selection.chunks, total)
              IN IF all.error
                 THEN ValueError
                 ELSE Parsed(DedupKeepFirst(all.ids, {}))

\* the step the loop of main() is at
StepR == picked[pos]

InitRun ==
    /\ Off12
    /\ Off09
    /\ OffDiff
    /\ Off13
    /\ Off11
    /\ OffCost
    /\ Off08
    /\ pcr = "parse"
    /\ isolate \in BOOLEAN
    /\ stop_on_failure \in BOOLEAN
    /\ dry_run \in BOOLEAN
    /\ env_ok \in BOOLEAN
    /\ picked = <<>>
    /\ pos = 1
    /\ runpc = Idle
    /\ active = {}
    /\ started = <<>>
    /\ codes = <<>>

\* if args.select: picked = parse_selection(args.select, total); nothing
\* picked or --dry-run: return; a ValueError ends main()
Parse ==
    /\ pcr = "parse"
    /\ \E selection \in Selections :
        LET got == parse_selection(selection, NSteps)
        IN IF got.error
           THEN pcr' = "died" /\ UNCHANGED picked
           ELSE /\ picked' = [k \in 1..Len(got.ids) |-> got.ids[k] + 1]
                /\ pcr' = IF got.ids = <<>> \/ dry_run THEN "done" ELSE "loop"
    /\ UNCHANGED <<restRun, isolate, stop_on_failure, dry_run,
                   env_ok, pos, runpc, active, started, codes>>

\* for idx in picked: code = runner(step, per_script_args): run_step_inproc
\* is entered here, or in the child process that p.start() has made
CallRunner ==
    /\ pcr = "loop"
    /\ pos <= Len(picked)
    /\ pcr' = IF isolate THEN "join" ELSE "inproc"
    /\ runpc' = RunAt("import", 0)
    /\ active' = active \cup {StepR}
    /\ started' = Append(started, StepR)
    /\ UNCHANGED <<restRun, isolate, stop_on_failure, dry_run,
                   env_ok, picked, pos, codes>>

\* the run of the step has ended: run_step_inproc has returned code c, a
\* SystemExit has left it ("escaped"), or its process has died ("crashed")
EndRun(how, c) ==
    /\ runpc' = RunAt(how, c)
    /\ active' = active \ {StepR}

\* importlib.import_module(modname): the module body runs.  A step without
\* main() does all its work here, and an Exception it raises is caught; a
\* SystemExit, which Step03 raises without its configuration, is not
Import ==
    /\ pcr \in {"inproc", "join"}
    /\ runpc.at = "import"
    /\ IF StepR \in ExitAtImportSteps /\ ~env_ok
       THEN EndRun("escaped", 1)
       ELSE runpc' = RunAt("call", 0) /\ UNCHANGED active
    /\ UNCHANGED <<restRun, pcr, isolate, stop_on_failure, dry_run,
                   env_ok, picked, pos, started, codes>>

\* the codes of the exits a step can take: it returns, raises an Exception,
\* or raises SystemExit with an integer code
ExitCodes == {0, 1, 2}

\* _call_callable(entry, args), or runpy.run_path for a step without an
\* entry point: return 0; except SystemExit: its code; except Exception: 1
Call ==
    /\ pcr \in {"inproc", "join"}
    /\ runpc.at = "call"
    /\ \E c \in ExitCodes : EndRun("returned", c)
    /\ UNCHANGED <<restRun, pcr, isolate, stop_on_failure, dry_run,
                   env_ok, picked, pos, started, codes>>

\* the child process dies without putting a code into the queue
ChildCrashes ==
    /\ pcr = "join"
    /\ runpc.at \in {"import", "call"}
    /\ EndRun("crashed", 1)
    /\ UNCHANGED <<restRun, pcr, isolate, stop_on_failure, dry_run,
                   env_ok, picked, pos, started, codes>>

\* what main() does with the code: [OK] or [X]; with --stop-on-failure
\* sys.exit(1) on a code other than 0
Handle(c) ==
    /\ codes' = Append(codes, c)
    /\ runpc' = Idle
    /\ IF c # 0 /\ stop_on_failure
       THEN pcr' = "exit1" /\ UNCHANGED pos
       ELSE pcr' = "loop" /\ pos' = pos + 1

\* run_step_inproc returns in main()'s process; a SystemExit that left it
\* leaves main() as well
InprocReturns ==
    /\ pcr = "inproc"
    /\ runpc.at \in {"returned", "escaped"}
    /\ IF runpc.at = "escaped"
       THEN pcr' = "died" /\ UNCHANGED <<pos, runpc, codes>>
       ELSE Handle(runpc.code)
    /\ UNCHANGED <<restRun, isolate, stop_on_failure, dry_run,
                   env_ok, picked, active, started>>

\* p.join() returns once the child has ended; q.get_nowait() gives the code
\* _child_target has put (1 when a SystemExit left run_step_inproc), else
\* 0 if p.exitcode == 0 else 1
JoinReturns ==
    /\ pcr = "join"
    /\ runpc.at \in {"returned", "escaped", "crashed"}
    /\ Handle(runpc.code)
    /\ UNCHANGED <<restRun, isolate, stop_on_failure, dry_run,
                   env_ok, picked, active, started>>

\* print(f"\nFinished in ..."); return
Finished ==
    /\ pcr = "loop"
    /\ pos > Len(picked)
    /\ pcr' = "done"
    /\ UNCHANGED <<restRun, isolate, stop_on_failure, dry_run,
                   env_ok, picked, pos, runpc, active, started, codes>>

NextRun ==
    \/ Parse
    \/ CallRunner
    \/ Import
    \/ Call
    \/ ChildCrashes
    \/ InprocReturns
    \/ JoinReturns
    \/ Finished

SpecRun == InitRun /\ [][NextRun]_vars

\* the two engines main() of Step11 and of Step12 hand the computed lists
\* to: remove_variants_chunked or call_stoq_add_variants runs
SpecApply == (Init \/ Init11) /\ [][Next \/ Next11]_vars

(***************************************************************************)
(* Properties.                                                             *)
(***************************************************************************)
Members == Range(variant_ids)
AddReturned == pc = "add_done"

\* the top-level chunks the loop of call_stoq_add_variants is through with
ChunkStarts == {j \in 1..Len(variant_ids) : (j - 1) % ChunkSize = 0}
ProcessedChunks == {ChunkAt(variant_ids, j) : j \in {k \in ChunkStarts : k < i}}

StrictSubBatch(p, b) == Range(p) \subseteq Range(b) /\ Range(p) # Range(b)

\* C1: bisection correctness.  When exactly one member k makes every call
\* that holds it fail with 422 and every other call succeeds, the add run
\* returns with the applied list holding all members but k and the
\* skipped-invalid list holding k alone.
C1_BisectionIsolatesTheBadMember ==
    (AddReturned /\ bad # 0) =>
        /\ Range(added_ok) = Members \ {bad}
        /\ Range(skipped_invalid) = {bad}

\* C2: a member is in added_ok if and only if it was in the payload of a
\* remote add call that returned 2xx (checked whenever the engine is between
\* two chunks or has returned).
C2_AddedIffSentInSuccessfulCall ==
    (pc \in {"loop", "add_done"}) => Range(added_ok) = okSent

\* C3: a member is in skipped_invalid only if a call whose payload was that
\* member alone was answered 409/422 without the lock text.
C3_SkippedOnlyIfRejectedAlone ==
    Range(skipped_invalid) \subseteq aloneRejected

\* C4: a lock never degrades to bisection.  Once the lock wait of a batch
\* has ended with the lock error, no strictly smaller sub-batch of it is
\* sent, and none of its members becomes skipped-invalid unless it was
\* rejected alone with 409/422.
C4_LockNeverBisects ==
    \A b \in lockFailed :
        /\ pc = "post" => ~StrictSubBatch(cur, b)
        /\ Range(b) \cap Range(skipped_invalid) \subseteq aloneRejected

\* C5: lock handling.  While a lock wait is answered "job in progress" it
\* sends the identical, unsplit batch again; and when the add run returns, a
\* batch (top-level chunk or half) whose first three calls were answered
\* locked and whose fourth was answered 2xx has all its members in added_ok
\* and none in skipped_invalid.
C5_LockedBatchIsRetriedWholeAndApplied ==
    /\ pc = "post" => \A k \in 1..Len(probed) : probed[k] = cur
    /\ AddReturned =>
          \A b \in recovered :
              /\ Range(b) \subseteq Range(added_ok)
              /\ Range(b) \cap Range(skipped_invalid) = {}

\* C5 witness: the add run returned after a batch of several members was
\* answered locked three times and then 2xx.
C5_Witness ==
    /\ AddReturned
    /\ \E b \in recovered : Len(b) >= 2

\* C6: no error of one resource aborts the run: main() ends, normally or by
\* an exception, only after its loop has reached every resource.
C6_RunReachesEveryResource ==
    pc \in {"raised", "exit"} => processed = 1..MaxOffers

\* C7: on a hard failure of a batch its members are reported as failed (in
\* the returned summary they are neither applied nor skipped-invalid) with
\* the captured error, and the batch is not sent again.
C7_HardFailureIsReportedAndNotResent ==
    \A h \in hardFailed :
        /\ pc = "post" => cur # h.ids
        /\ AddReturned =>
              /\ Range(h.ids) \cap Range(added_ok) = {}
              /\ Range(h.ids) \cap Range(skipped_invalid) = {}
              /\ first_error = [tag |-> "err", err |-> h.err]

\* C8: a batch whose lock-wait budget is exhausted ends as a failure: when
\* the add run returns (no exception left it), its members are neither
\* applied nor skipped-invalid.
C8_LockBudgetExhaustionIsAFailure ==
    AddReturned =>
        \A b \in lockFailed :
            /\ Range(b) \cap Range(added_ok) = {}
            /\ Range(b) \cap Range(skipped_invalid) = {}

\* C9: every batch answered 409/422 without the lock text goes to the
\* bisection, whatever its body: when the add run returns, each of its
\* members is applied or skipped-invalid.
C9_ValidationFailureIsAlwaysResolved ==
    AddReturned =>
        \A b \in valFailed :
            Range(b) \subseteq Range(added_ok) \cup Range(skipped_invalid)

\* C10: after a response whose status is not 2xx, 429, 5xx, 409 or 422 no
\* further call is made for that batch or for a sub-batch of it.
C10_HardFailureEndsTheBatch ==
    \A h \in hardFailed :
        (~IsTransientStatus(h.err.status) /\ pc = "post")
            => ~(Range(cur) \subseteq Range(h.ids))

\* batches that ended in a failure that is not a validation failure: an
\* exhausted lock wait, a hard status, or a 429/5xx that outlasted the retries
NonValidationFailed == lockFailed \cup {h.ids : h \in hardFailed}

\* C11: a validation failure is never simply retried.  After a call with
\* payload B was answered 409/422 (not a lock), no later call of the add run
\* has the identical payload B.
C11_ValidationFailureIsNeverResent ==
    \A b \in valFailed : pc = "post" => cur # b

\* C12: a transient failure is retried at most maxRetries times.  Whenever a
\* _post_with_retries is about to send, the number of retries it has issued
\* or is issuing (sends after the first one) is at most max_retries in Step12
\* and at most MAX_RETRIES in Step09; network errors and 429/5xx answers
\* count on the same counter.
C12_TransientRetriesAreBounded ==
    /\ pc = "post" => attempt <= max_retries
    /\ pc9 = "post" => attempt9 - 1 <= MAX_RETRIES

\* C12 witness: a call of Step12 was answered 429/5xx until the retries were
\* used up and _post_with_retries returned that response.
C12_Witness ==
    \E h \in hardFailed : IsTransientStatus(h.err.status)

\* C13: a half that ends in a transient, lock or hard failure while
\* bisecting is not split further and none of its members becomes
\* skipped-invalid (unless it was itself rejected alone with 409/422).
C13_FailureWhileBisectingIsNotValidation ==
    \A b \in NonValidationFailed \ ProcessedChunks :
        /\ pc = "post" => ~StrictSubBatch(cur, b)
        /\ \A j \in 1..Len(stack) : ~StrictSubBatch(stack[j].ids, b)
        /\ Range(b) \cap Range(skipped_invalid) \subseteq aloneRejected

\* C14: when a 422 names existing_variants E, E is stripped and the
\* remainder is answered 2xx, the members of E are reported as skipped: when
\* stoq_add_variants returns success they are in its skipped-invalid list.
C14_StrippedMembersAreReportedSkipped ==
    (pc9 = "done" /\ ok9) => strippedOk9 \subseteq Range(skipped_invalid9)

\* C19: whenever an add operation finishes with a non-empty skipped-invalid
\* list, an audit record of that list has been written, in Step12 and in
\* Step09.
C19_SkippedSetIsPersisted ==
    /\ (AddReturned /\ skipped_invalid # <<>>) => SavedSkipped12 # {}
    /\ (pc9 = "done" /\ skipped_invalid9 # <<>>) => SavedSkipped9 # {}

\* C20: call_stoq_add_variants returns overall_ok = true only if no chunk
\* ended in a non-validation failure, and it returns true when every member
\* was resolved to applied or skipped-invalid.
C20_OverallOkIsStrict ==
    AddReturned =>
        /\ OverallOk => NonValidationFailed \cap ProcessedChunks = {}
        /\ (Range(added_ok) \cup Range(skipped_invalid) = Members) => OverallOk

\* the members the DB rows of the offer denote: "123", 123 and "123.0" are
\* one member; a value with no number in it denotes none
Desired == {v.n : v \in {w \in db_rows : w.form # "bad"}}

\* the members a list of the differencer holds
MembersOf(list) == {list[k].n : k \in {j \in 1..Len(list) : list[j].form # "bad"}}

\* main() has just compared the two reads
Compared == pcd \in {"remove", "add"}

\* main() of Step12 is through with the offer
AddDone == (pcd = "step11" /\ run = 2) \/ pcd = "end"

\* C15: identity normalization.  A member that is on both sides, under
\* whatever representation, is in neither to_add nor to_remove.
C15_SameMemberIsInNeitherList ==
    Compared =>
        \A n \in Desired \cap remote :
            n \notin MembersOf(to_add) /\ n \notin MembersOf(to_remove)

\* C16: idempotence.  In the reconciliation that follows a reconciliation
\* (nothing else having changed the DB or the remote), both comparisons find
\* no member to add and no member to remove.
C16_SecondRunFindsNothingToDo ==
    (Compared /\ run = 2) =>
        MembersOf(to_add) = {} /\ MembersOf(to_remove) = {}

\* C17: the differencer gives toAdd = D \ R and toRemove = R \ D, disjoint,
\* and after a reconciliation in which every call succeeded the remote
\* membership is D.
C17_DifferenceAndApplyReachDesired ==
    /\ Compared =>
          /\ MembersOf(to_add) = Desired \ remote
          /\ MembersOf(to_remove) = remote \ Desired
          /\ MembersOf(to_add) \cap MembersOf(to_remove) = {}
    /\ AddDone => remote = Desired

\* C18: a desired value that cannot be coerced to an integer is counted in
\* the result of the add: a summary exists, its requested count includes the
\* value and it counts the value among the skipped.
C18_MalformedMemberIsCounted ==
    AddDone =>
        \A k \in 1..Len(to_add) :
            to_add[k].form = "bad" =>
                /\ summary_add # NoSummary
                /\ summary_add.requested_count = Len(to_add)
                /\ summary_add.skipped_invalid_count >= 1

\* C21: between any two consecutive remote mutation calls for a resource the
\* engine waits, whatever the outcome of the earlier call: whenever the add
\* engine of Step12 is about to send a request for an offer, it has slept
\* since the previous request it sent for that offer.
C21_CallsArePaced ==
    pc = "post" => paced

\* the desired set of Step13: the ids the DB rows hold
Desired13 == Range(rows13)

\* the batches remove_variants_from_profile is to send
RemoveBatches13 ==
    {Batch13(to_remove13, b) :
        b \in {k \in 1..Len(to_remove13) : (k - 1) % BatchSize13 = 0}}

C23_ReaderReturnsEveryPage ==
    /\ pc13 = "compute" => existing13 = remote13
    /\ (pc13 = "remove" /\ bi13 = 1) => Range(to_add13) \cap remote13 = {}

RECURSIVE IsSubseq(_, _)
\* a is b with some members left out
IsSubseq(a, b) ==
    IF a = <<>> THEN TRUE
    ELSE IF b = <<>> THEN FALSE
    ELSE IF a[1] = b[1] THEN IsSubseq(Tail(a), Tail(b))
    ELSE IsSubseq(a, Tail(b))

\* C24: every remote call carries at most batchSize members; the requested
\* members are split into consecutive batches, each member in exactly one
\* top-level batch and in the original order; every sub-batch sent is a
\* subsequence of its top-level batch.  For the remove engine of Step11: the
\* list it cuts into batches is the requested list, and every payload is a
\* subsequence of the current batch of at most REMOVE_BATCH_SIZE members.
C24_BatchesKeepSizeAndOrder ==
    pc11 \in {"loop", "send", "done"} =>
        /\ unique_vids11 = CoerceIdsToInt(vids11)
        /\ Len(payload11) <= RemoveBatchSize
        /\ pc11 = "send" =>
              IsSubseq(payload11, Batch11(unique_vids11, bi11))

\* the list of integers is in strictly ascending order
IsAscending(list) == \A k \in 1..(Len(list) - 1) : list[k] < list[k + 1]

\* C27: toAdd and toRemove are in ascending order of the members' integer
\* value (9 before 10).  The to_remove that main() of Step11 has computed and
\* passes to remove_variants_chunked is ascending as a list of integers.
C27_WorkListsAscendByIntegerValue ==
    pc11 # "off" => IsAscending(CoerceIdsToInt(vids11))

\* C29: a full remove batch that keeps failing transiently is sent to the
\* remote at most REMOVE_MAX_RETRIES + 1 (= 3) times as a whole batch before
\* the per-item fallback: the requests.delete calls that carried the whole
\* batch number at most REMOVE_MAX_RETRIES + 1.
C29_WholeBatchSentAtMostThreeTimes == sends11 <= REMOVE_MAX_RETRIES + 1

\* C29 (amended): a full remove batch is passed to call_stoq_remove_variants
\* at most REMOVE_MAX_RETRIES + 1 times before the per-item fallback, and each
\* of these calls sends it up to RETRY_TIMES times, so the remote is sent the
\* whole batch at most (REMOVE_MAX_RETRIES + 1) * RETRY_TIMES (= 9) times.
C29_WholeBatchCallsAndRequestsBounded ==
    /\ rattempt11 <= REMOVE_MAX_RETRIES
    /\ sends11 <= (REMOVE_MAX_RETRIES + 1) * RETRY_TIMES
    /\ (pc11 = "send" /\ ii11 = 0) =>
           sends11 = rattempt11 * RETRY_TIMES + (wattempt11 - 1)

\* the whole batch went out nine times and the per-item fallback has begun
C29_Witness ==
    /\ pc11 = "send"
    /\ ii11 = 1
    /\ sends11 = (REMOVE_MAX_RETRIES + 1) * RETRY_TIMES
    /\ Len(Batch11(unique_vids11, bi11)) > 1

FailedIds11 == {failed11[k].variant_id : k \in 1..Len(failed11)}

\* C30: after remove_variants_chunked returns, each distinct integer member
\* requested is in exactly one of removed_ok and failed, so requested =
\* removed_ok_count + failed_count; a member is in removed_ok only if a
\* request containing it succeeded, and in failed only if a request for it
\* alone failed.
C30_EveryMemberAccountedFor ==
    pc11 = "done" =>
        /\ Range(removed_ok11) \cup FailedIds11 = Range(CoerceIdsToInt(vids11))
        /\ Range(removed_ok11) \cap FailedIds11 = {}
        /\ Len(unique_vids11) = Len(removed_ok11) + Len(failed11)
        /\ Cardinality(Range(CoerceIdsToInt(vids11))) = Len(unique_vids11)
        /\ \A v \in Range(removed_ok11) :
              \E p \in okCalls11 : v \in Range(p)
        /\ FailedIds11 \subseteq aloneFailed11

\* the call returned with a removed member, a member removed in a whole
\* batch, and a failed member
C30_Witness ==
    /\ pc11 = "done"
    /\ failed11 # <<>>
    /\ \E p \in okCalls11 : Len(p) > 1
    /\ Len(removed_ok11) > Cardinality(okCalls11)

\* a lock-retry call: _try_add_chunk called again after a lock answer
LockRetryCall == pc = "post" /\ probed # <<>>

\* the sleeps of the lock wait: the first lasts lock_backoff_start, none
\* lasts longer than lock_backoff_cap, none is shorter than the one before
LockSleepSchedule ==
    /\ slept # <<>> => slept[1] = lock_backoff_start
    /\ \A n \in 1..Len(slept) : slept[n] <= lock_backoff_cap
    /\ \A n \in 1..(Len(slept) - 1) : slept[n] <= slept[n + 1]

\* C28: for one batch _try_add_chunk_with_lock_wait issues no further
\* lock-retry call once lock_wait_seconds have elapsed since its first
\* attempt; each sleep between lock probes is at most lock_backoff_cap, starts
\* at lock_backoff_start and never decreases.
C28_NoLockRetryAfterBudget ==
    /\ LockRetryCall => elapsed < lock_wait_seconds
    /\ LockSleepSchedule

\* C28 (amended): the budget is tested when a lock answer arrives, before the
\* sleep: a lock-retry call is issued only if less than lock_wait_seconds had
\* elapsed at that test, so it begins less than lock_wait_seconds plus the
\* sleep before it (at most lock_backoff_cap) after the first attempt; each
\* sleep is at most lock_backoff_cap, starts at lock_backoff_start and never
\* decreases.
C28_LockRetryWithinBudgetPlusSleep ==
    /\ LockRetryCall =>
           /\ elapsed - slept[Len(slept)] < lock_wait_seconds
           /\ elapsed < lock_wait_seconds + lock_backoff_cap
    /\ LockSleepSchedule

\* a lock-retry call that begins after the budget has run out
C28_Witness == LockRetryCall /\ elapsed >= lock_wait_seconds

\* the delay the retry policy calls for before retry number n, after a
\* response with the Retry-After header ra
PolicyDelay(ra, n, base) ==
    IF ra.kind = "seconds" THEN ra.secs ELSE base * 2 ^ (n - 1)

\* C26: the delay before a transient retry is the value of the Retry-After
\* header whenever the response carries one that parses as a number, and the
\* exponential backoff (base, 2*base, 4*base, ...) only otherwise: in Step12
\* and in Step09 every sleep of _post_with_retries lasted what the policy
\* calls for.
C26_RetryDelayHonoursRetryAfter ==
    /\ retried # NoRetry =>
           retried.delay = PolicyDelay(retried.ra, retried.attempt, base_backoff)
    /\ retried9 # NoRetry =>
           retried9.delay =
               PolicyDelay(retried9.ra, retried9.attempt, INITIAL_BACKOFF)

\* the least e with 2^e >= n
RECURSIVE CeilLog2From(_, _)
CeilLog2From(n, e) == IF 2 ^ e >= n THEN e ELSE CeilLog2From(n, e + 1)
CeilLog2(n) == CeilLog2From(n, 0)

\* the calls the claim allows for a chunk of n members
BisectionBound(n) == 2 * CeilLog2(n) + 1

\* C25: for a chunk of N members of which exactly one always fails validation
\* and all others succeed, the engine issues at most 2*ceil(log2(N))+1 remote
\* calls for that chunk, the first whole-chunk attempt counted.
C25_BisectionCostIsLogarithmic ==
    /\ Len(cost_sent12) <= BisectionBound(Len(cost_chunk))
    /\ Len(cost_sent09) <= BisectionBound(Len(cost_chunk))

\* no member is twice in the list
NoDup(list) == \A a, b \in 1..Len(list) : list[a] = list[b] => a = b

\* the top-level chunks that ended in a failure other than a validation
\* failure (409/422 without the lock text)
ChunksFailedOtherwise == NonValidationFailed \cap ProcessedChunks

\* C31: call_stoq_add_variants never double-counts.  At every point added_ok
\* and skipped_invalid are disjoint, hold no member twice and hold only
\* requested members, so the two counts sum to at most requested_count; and
\* when it has returned and no chunk ended in a non-validation failure, every
\* requested member is in one of the two lists.
C31_NeverDoubleCounts ==
    /\ Range(added_ok) \cap Range(skipped_invalid) = {}
    /\ NoDup(added_ok)
    /\ NoDup(skipped_invalid)
    /\ Range(added_ok) \cup Range(skipped_invalid) \subseteq Members
    /\ Len(added_ok) + Len(skipped_invalid) <= Len(variant_ids)
    /\ (AddReturned /\ ChunksFailedOtherwise = {}) =>
           Range(added_ok) \cup Range(skipped_invalid) = Members

\* C32: the engine only sends members it was asked to change.  The payload of
\* every add call of Step12 is a subsequence of the to_add_int it was called
\* with, the payload of every remove call of Step11 holds only integers of
\* ids that are in to_remove, and neither payload is empty; this includes the
\* halves of the bisection and the single ids of the per-item fallback.
C32_OnlyRequestedMembersAreSent ==
    /\ pc = "post" => cur # <<>> /\ IsSubseq(cur, variant_ids)
    /\ pc11 = "send" =>
           /\ payload11 # <<>>
           /\ \A v \in Range(payload11) : Value("str", v) \in Range(vids11)

\* the bisection sends a half whose members come from the middle of the list
C32_Witness ==
    /\ pc = "post"
    /\ stack # <<>>
    /\ Len(cur) = 1
    /\ cur[1] \notin {variant_ids[1], variant_ids[Len(variant_ids)]}

\* every running call of _divide_and_conquer_on_422 has a batch of at least
\* one id that is shorter than the batch of the call it was made by, and
\* what a call sends is non-empty and shorter than its own batch
BisectionShrinks ==
    /\ \A k \in 1..Len(stack) : Len(stack[k].ids) >= 1
    /\ \A k \in 2..Len(stack) : Len(stack[k].ids) < Len(stack[k - 1].ids)
    /\ (pc = "post" /\ stack # <<>>) =>
           Len(cur) >= 1 /\ Len(cur) < Len(Top.ids)

\* a lock probe that is followed by another moves the clock on by at least
\* lock_backoff_start, and _post_with_retries counts every retry
LockClockAdvances ==
    Len(probed') > Len(probed) => elapsed' >= elapsed + lock_backoff_start

\* C33: the add operation always terminates.  Whatever the remote answers,
\* call_stoq_add_variants once entered returns or raises; the recursion of
\* the bisection strictly shrinks the batch and stops at size 1; and the
\* clock advances from one lock probe to the next.
C33_AddAlwaysTerminates ==
    /\ []BisectionShrinks
    /\ [][LockClockAdvances]_vars
    /\ (pc = "loop") ~> (pc \in {"add_done", "raised"})

\* the add has returned after a disturbed call and a bisection down to a
\* single id
C33_Witness ==
    /\ AddReturned
    /\ disturbed > 0
    /\ skipped_invalid # <<>>
    /\ Len(variant_ids) = ChunkSize

\* stoq_add_variants of Step09 has returned (True, ...)
AddReturnedOk9 == pc9 = "done" /\ ok9

\* stoq_add_variants of Step09 has returned (False, ...) or has raised
AddFailedOrRaised9 == (pc9 = "done" /\ ~ok9) \/ pc9 = "raised"

LaterChunks9 ==
    {variant_ids9[k] : k \in (idx9 + ChunkSize)..Len(variant_ids9)}

\* what the remote had taken from stoq_add_variants stays taken
AppliedStays9 == okSent9 \subseteq okSent9'

DeleteFailedIds8 ==
    {offer_ids8[k] : k \in 1..Min(idx8 - 1, Len(offer_ids8))} \ gone8

\* C36: in Step08 a row is set to "delete-completed", and later removed, only
\* if the remote DELETE of its stoq_offer_id was answered 200, 204 or 404; an
\* offer whose delete_stoq_offer returned failure, after at most MAX_RETRIES
\* attempts, has its rows left as they were and is listed in the failures
C36_CompletedOnlyAfterRemoteDelete ==
    /\ \A k \in DOMAIN rows8 :
        rows8[k].status \in {"delete-completed", "removed"} =>
            rows8[k].oid \in gone8
    /\ \A o \in DeleteFailedIds8 :
        /\ o \in Range(failures8)
        /\ tries8[o] >= 1
        /\ tries8[o] <= MAX_RETRIES_8
        /\ \E k \in DOMAIN rows8 :
               rows8[k].oid = o /\ rows8[k].status = "delete"
        /\ \A k \in DOMAIN rows8 :
               rows8[k].oid = o => rows8[k].status \in RowStatuses8
    /\ pc8 = "exit" /\ DeleteFailedIds8 # {} =>
           /\ written8 # NotWritten
           /\ DeleteFailedIds8 \subseteq Range(written8.stoq_failures)

C36_Witness ==
    /\ pc8 = "exit"
    /\ \E k \in DOMAIN rows8 : rows8[k].status = "removed"
    /\ \E o \in DeleteFailedIds8 : tries8[o] = MAX_RETRIES_8

\* main() of run_all has ended, by return, sys.exit(1) or an exception
RunEnded == pcr \in {"done", "exit1", "died"}

\* picked was computed and the steps were to be executed
RunWasDue == picked # <<>> /\ ~dry_run

\* C37: in the non-interactive mode of run_all the selected steps run one
\* after another in selection order, each run ending before the next begins
\* (with --isolate too); with --stop-on-failure no step follows the first
\* one that fails, and without it every selected step is run
C37_StepsRunInOrderToTheEnd ==
    /\ Cardinality(active) <= 1
    /\ pcr = "loop" => active = {}
    /\ Len(started) <= Len(picked)
    /\ started = SubSeq(picked, 1, Len(started))
    /\ stop_on_failure =>
           \A k \in 1..Len(codes) : codes[k] # 0 => Len(started) = k
    /\ (RunEnded /\ RunWasDue /\ ~stop_on_failure) => started = picked

====
